---- MODULE Spec2Model ----
(***************************************************************************)
(* Body-tracker plugin: the Google Fit OAuth2 token lifecycle              *)
(* (GoogleFitService), the local OAuth callback listener                   *)
(* (OAuthCallbackServer) and the plugin code that loads, persists and      *)
(* clears the stored credential.                                           *)
(*                                                                         *)
(* JavaScript values are kept apart where the code can tell them apart:    *)
(* a string setting is Undefined, the empty string or a non-empty string;  *)
(* a number setting is Undefined, Null (what JSON makes of NaN), NaN or a  *)
(* number of milliseconds.                                                 *)
(***************************************************************************)
EXTENDS Integers, FiniteSets, Sequences, TLC

\* ------------------------------------------------------------------ bounds

\* how many times the clock advances in one run
MaxTicks == 2

\* how many authenticate() attempts (callback promises) one process run makes
MaxAttempts == 1

\* how many callback promises overlapping authenticate() calls, or direct
\* waitForCallback calls, make in one run
MaxFlowAttempts == 2

\* how many sync runs one process run makes
MaxRuns == 2

\* how many direct calls of a document writer one run makes
MaxCalls == 3

\* how many timers window.setInterval makes in one run
MaxIntervals == 4

\* ---------------------------------------------------------- program constants

refreshBuffer == 300000

retryCountInit == 2

retryDelay == 1000

callbackTimeout == 300000

uiSettleDelay == 100

saveSettleDelay == 500

minRequestInterval == 1000

\* ------------------------------------------------------------------ values

Undefined == "undefined"

Empty == ""

\* JavaScript truthiness of a string-or-undefined value
Truthy(s) == s # Undefined /\ s # Empty

NumUndefined == [tag |-> "undefined"]

NumNull == [tag |-> "null"]

NaN == [tag |-> "NaN"]

Num(ms) == [tag |-> "number", ms |-> ms]

\* JavaScript truthiness of a number-or-undefined value
NumTruthy(e) == e.tag = "number" /\ e.ms # 0

\* the clock steps: the retry delay, and one hour less the refresh margin
TickSteps == {1000, 3300000}

\* token values are opaque: the ones an authorization-code exchange issues
\* and the ones a refresh issues are named apart
ExchangeAccessTokens == {"a1"}

ExchangeRefreshTokens == {"r1"}

RefreshAccessTokens == {"a2"}

RefreshRefreshTokens == {"r2"}

\* expires_in values (seconds) a token response carries
ExpiresInValues == {3600}

Nonces == {"n1", "n2"}

Codes == {"code1"}

Callers == {"c1", "c2"}

\* callers of waitForCallback other than authenticate()
Waiters == {"w1", "w2"}

\* ------------------------------------------------- the token endpoint's answers

\* status 0 stands for a request that fails without an HTTP answer
NetworkError ==
    [status |-> 0, error |-> Undefined, access_token |-> Undefined,
     expires_in |-> NumUndefined, refresh_token |-> Undefined]

ErrorResponses ==
    { [status |-> s, error |-> e, access_token |-> Undefined,
       expires_in |-> NumUndefined, refresh_token |-> Undefined] :
        s \in {400, 401, 500},
        e \in {Undefined, "invalid_grant", "invalid_token", "server_error"} }

\* a 200 answer; a body that is not JSON reads as one with no field
OkResponses(accessTokens, refreshTokens) ==
    { [status |-> 200, error |-> Undefined, access_token |-> a,
       expires_in |-> x, refresh_token |-> r] :
        a \in accessTokens \cup {Undefined},
        x \in {Num(s) : s \in ExpiresInValues} \cup {NumUndefined},
        r \in refreshTokens \cup {Undefined} }

\* the answers to an authorization-code exchange
ExchangeResponses ==
    {NetworkError} \cup ErrorResponses
        \cup OkResponses(ExchangeAccessTokens, ExchangeRefreshTokens)

\* the answers to a refresh
RefreshResponses ==
    {NetworkError} \cup ErrorResponses
        \cup OkResponses(RefreshAccessTokens, RefreshRefreshTokens)

\* ------------------------------------------------------------------ state

VARIABLES
    settings,    \* the Settings object shared by the plugin and the service
    persisted,   \* data.json as last written by saveData
    now,         \* Date.now()
    ticks,       \* clock advances so far
    call,        \* the refreshTokenIfNeeded calls, one per caller
    auth,        \* the authenticate() call
    manual,      \* a direct completeAuthentication(code, state) call
    oauthServer, \* OAuthCallbackServer: server, callbackPromise, callbackResolver
    promises,    \* the promises waitForCallback made: pending or resolved
    timers,      \* the timeouts waitForCallback armed
    reply,       \* the status of the listener's last HTTP answer (0: none yet)
    direct,      \* the last call of a listener method from outside authenticate()
    waiters,     \* the promise each outside caller of waitForCallback holds
    dataCall,    \* the getMeasurements / addMeasurement calls, one per caller
    lastRequestTime, \* GoogleFitService.lastRequestTime
    lastDispatch, \* when, and by whose call, the last data request was sent
    prefs,       \* the fields of the Settings object that are not the credential
    provider,    \* what the fitness API holds: its weight and body-fat answers
    vault,       \* the documents: the journal file and the measurement files
    sync,        \* the syncGoogleFit run
    written,     \* the last direct call of a document writer, and how it ended
    running,     \* the syncGoogleFit runs that are under way at the same time
    plugin,      \* BodyTrackerPlugin: loaded, googleFitService, googleFitSyncInterval
    intervals    \* the timers window.setInterval made, in the order they were made

vars == <<settings, persisted, now, ticks, call, auth, manual, oauthServer,
          promises, timers, reply, direct, waiters, dataCall, lastRequestTime,
          lastDispatch, prefs, provider, vault, sync, written, running, plugin,
          intervals>>

tokenVars == <<settings, persisted>>

listenerVars == <<oauthServer, promises, timers>>

harnessVars == <<direct, waiters>>

dataVars == <<dataCall, lastRequestTime, lastDispatch>>

documentVars == <<prefs, provider, vault, sync, written, running>>

scheduleVars == <<plugin, intervals>>

syncVars == <<documentVars, scheduleVars>>

\* ------------------------------------------------------- the settings store

\* the Credential fields of a data.json that was never written
EmptyData ==
    [googleAccessToken |-> Undefined, googleRefreshToken |-> Undefined,
     googleTokenExpiry |-> NumUndefined, googleAuthState |-> Undefined]

\* JSON.stringify of a number: NaN is written as null
SerializeNum(e) == IF e.tag = "NaN" THEN NumNull ELSE e

\* saveData(settings): what data.json holds after the write
Serialize(s) == [s EXCEPT !.googleTokenExpiry = SerializeNum(s.googleTokenExpiry)]

\* googleTokenExpiry && Date.now() < googleTokenExpiry
ExpiryInFuture(e, t) == NumTruthy(e) /\ t < e.ms

\* loadSettings that keeps an access token whatever its expiry
LoadSettingsKeepsAccess(data, t) ==
    IF Truthy(data.googleRefreshToken) THEN data
    ELSE [data EXCEPT !.googleAccessToken = Empty,
                      !.googleTokenExpiry = NumUndefined,
                      !.googleAuthState = Undefined]

\* loadSettings: the in-memory settings made from data.json at time t
LoadSettings(data, t) ==
    IF Truthy(data.googleRefreshToken)
    THEN IF ExpiryInFuture(data.googleTokenExpiry, t)
         THEN data
         ELSE [data EXCEPT !.googleAccessToken = Empty,
                           !.googleTokenExpiry = NumUndefined]
    ELSE [data EXCEPT !.googleAccessToken = Empty,
                      !.googleTokenExpiry = NumUndefined,
                      !.googleAuthState = Undefined]

\* ------------------------------------------------------- GoogleFitService

\* Date.now() + (expires_in * 1000): NaN when the answer has no expires_in
ExpiryFrom(t, expiresIn) ==
    IF expiresIn.tag = "number" THEN Num(t + expiresIn.ms * 1000) ELSE NaN

\* the three assignments that clear the tokens ('' , '' , undefined)
ClearTokens(s) ==
    [s EXCEPT !.googleAccessToken = Empty,
              !.googleRefreshToken = Empty,
              !.googleTokenExpiry = NumUndefined]

\* NotAuthenticated with the first check left out
NotAuthenticatedSkipped(s) == FALSE

\* refreshTokenIfNeeded, first check: neither token is set
NotAuthenticated(s) ==
    ~Truthy(s.googleAccessToken) /\ ~Truthy(s.googleRefreshToken)

\* NeedsRefresh as the condition of the unused ensureValidToken: a known
\* expiry inside the margin, and nothing else
NeedsRefreshExpiryOnly(s, t) ==
    NumTruthy(s.googleTokenExpiry) /\ t + refreshBuffer > s.googleTokenExpiry.ms

\* NeedsRefresh that waits until the margin is passed
NeedsRefreshPastMargin(s, t) ==
    \/ ~Truthy(s.googleAccessToken)
    \/ ~NumTruthy(s.googleTokenExpiry)
    \/ t > s.googleTokenExpiry.ms - refreshBuffer

\* refreshTokenIfNeeded, the refresh condition at time t
NeedsRefresh(s, t) ==
    \/ ~Truthy(s.googleAccessToken)
    \/ ~NumTruthy(s.googleTokenExpiry)
    \/ t >= s.googleTokenExpiry.ms - refreshBuffer

\* ClearAccessOnly that forgets the expiry
ClearAccessOnlyKeepsExpiry(s) == [s EXCEPT !.googleAccessToken = Undefined]

\* refreshTokenIfNeeded, refresh needed and no refresh token: what is cleared
ClearAccessOnly(s) ==
    [s EXCEPT !.googleAccessToken = Undefined,
              !.googleTokenExpiry = NumUndefined]

\* refreshAccessToken: the answer is one that invalidates the refresh token
IsAuthError(resp) ==
    /\ resp.status \in {400, 401}
    /\ resp.error \in {"invalid_grant", "invalid_token"}

\* refreshAccessToken: how one answer of the token endpoint ends the attempt
RefreshKind(resp) ==
    IF resp.status = 0 THEN "transient"
    ELSE IF resp.status # 200
         THEN IF IsAuthError(resp) THEN "reconnect" ELSE "transient"
         ELSE IF ~Truthy(resp.access_token) THEN "transient" ELSE "ok"

\* refreshAccessToken: the settings after a successful answer at time t
ApplyRefresh(s, resp, t) ==
    [s EXCEPT !.googleAccessToken = resp.access_token,
              !.googleTokenExpiry = ExpiryFrom(t, resp.expires_in),
              !.googleRefreshToken =
                  IF Truthy(resp.refresh_token) THEN resp.refresh_token ELSE @]

\* RefreshSettings that clears the tokens on every failed refresh
RefreshSettingsClearOnAnyError(s, resp, t) ==
    IF RefreshKind(resp) = "ok" THEN ApplyRefresh(s, resp, t) ELSE ClearTokens(s)

\* refreshAccessToken: the settings after an answer of any kind
RefreshSettings(s, resp, t) ==
    CASE RefreshKind(resp) = "ok" -> ApplyRefresh(s, resp, t)
      [] RefreshKind(resp) = "reconnect" -> ClearTokens(s)
      [] OTHER -> s

\* StateMatches that accepts the code whatever the state
StateMatchesAlways(state, s) == TRUE

\* completeAuthentication: the state check that precedes the exchange
StateMatches(state, s) == state = s.googleAuthState

\* completeAuthentication: request() resolved and the body holds both tokens
ExchangeOk(resp) ==
    /\ resp.status = 200
    /\ Truthy(resp.access_token)
    /\ Truthy(resp.refresh_token)

\* ExchangeSettings whose catch block stores what the answer holds and
\* forgets the pending auth state
ExchangeSettingsPartial(s, resp, t) ==
    IF ExchangeOk(resp)
    THEN [s EXCEPT !.googleAccessToken = resp.access_token,
                   !.googleRefreshToken = resp.refresh_token,
                   !.googleTokenExpiry = ExpiryFrom(t, resp.expires_in)]
    ELSE [s EXCEPT !.googleAccessToken = resp.access_token,
                   !.googleAuthState = Undefined]

\* completeAuthentication: the settings after the token endpoint's answer
ExchangeSettings(s, resp, t) ==
    IF ExchangeOk(resp)
    THEN [s EXCEPT !.googleAccessToken = resp.access_token,
                   !.googleRefreshToken = resp.refresh_token,
                   !.googleTokenExpiry = ExpiryFrom(t, resp.expires_in)]
    ELSE ClearTokens(s)

\* TokensSaved that does not read the tokens back
TokensSavedUnchecked(s) == TRUE

\* authenticate: the check made after the exchange and the settle delay
TokensSaved(s) == Truthy(s.googleAccessToken) /\ Truthy(s.googleRefreshToken)

\* settings tab: the condition under which the button reads Disconnect
HasValidTokens(s, t) ==
    /\ Truthy(s.googleRefreshToken)
    /\ \/ Truthy(s.googleAccessToken)
       \/ ExpiryInFuture(s.googleTokenExpiry, t)

\* ------------------------------------------------ refreshTokenIfNeeded calls

\* one call: where it is, the loop's retryCount and lastError, the requests
\* it has sent, when its last attempt failed, and how it ended; turn tells
\* a caller's successive calls apart
IdleCall == [pc |-> "idle", turn |-> 0, retryCount |-> 0, sent |-> 0,
             failedAt |-> 0, lastError |-> "none", result |-> "none"]

\* call k has returned ("ok") or thrown (the error) after sending n requests
Finished(k, res, n) ==
    [pc |-> "done", turn |-> k.turn, retryCount |-> 0, sent |-> n,
     failedAt |-> 0, lastError |-> IF res = "ok" THEN "none" ELSE res,
     result |-> res]

\* a caller's next call begins
NewCall(k) == [IdleCall EXCEPT !.turn = 1 - k.turn]

\* the loop's first iteration: refreshAccessToken sends its request
FirstAttempt(k) ==
    [k EXCEPT !.pc = "fetch", !.retryCount = retryCountInit, !.sent = 1]

\* refreshTokenIfNeeded up to its first await: the checks, and either the
\* clearing of the access token or the first refreshAccessToken request
RefreshTokenIfNeeded(c) ==
    /\ call[c].pc \in {"idle", "done"}
    /\ IF NotAuthenticated(settings)
       THEN /\ call' = [call EXCEPT ![c] = Finished(NewCall(@), "AuthRequired", 0)]
            /\ UNCHANGED tokenVars
       ELSE IF ~NeedsRefresh(settings, now)
       THEN /\ call' = [call EXCEPT ![c] = Finished(NewCall(@), "ok", 0)]
            /\ UNCHANGED tokenVars
       ELSE IF ~Truthy(settings.googleRefreshToken)
       THEN /\ settings' = ClearAccessOnly(settings)
            /\ persisted' = Serialize(settings')
            /\ call' = [call EXCEPT ![c] = Finished(NewCall(@), "AuthRequired", 0)]
       ELSE /\ call' = [call EXCEPT ![c] = FirstAttempt(NewCall(@))]
            /\ UNCHANGED tokenVars
    /\ UNCHANGED <<syncVars, now, ticks, auth, manual, listenerVars, reply,
                   harnessVars,
                   dataVars>>

\* AfterFailedAttempt without the check that rethrows an auth error
AfterFailedAttemptRetriesAll(k, err, t) ==
    IF k.retryCount - 1 > 0
    THEN [k EXCEPT !.pc = "delay", !.retryCount = @ - 1, !.failedAt = t,
                   !.lastError = err]
    ELSE [pc |-> "done", turn |-> k.turn, retryCount |-> 0, sent |-> k.sent,
          failedAt |-> 0, lastError |-> err, result |-> err]

\* the catch block of the retry loop at time t: the attempt failed with err;
\* an auth error is rethrown, any other error is retried after the delay
\* while retries are left
AfterFailedAttempt(k, err, t) ==
    IF err = "reconnect" THEN Finished(k, err, k.sent)
    ELSE IF k.retryCount - 1 > 0
    THEN [k EXCEPT !.pc = "delay", !.retryCount = @ - 1, !.failedAt = t,
                   !.lastError = err]
    ELSE Finished(k, err, k.sent)

\* the call after the token endpoint's answer to its attempt
AfterAnswer(k, resp, t) ==
    IF RefreshKind(resp) = "ok"
    THEN Finished(k, "ok", k.sent)
    ELSE AfterFailedAttempt(k, RefreshKind(resp), t)

\* the token endpoint answers (or the request fails) for caller c's attempt
RefreshAnswer(c, resp) ==
    /\ call[c].pc = "fetch"
    /\ settings' = RefreshSettings(settings, resp, now)
    /\ persisted' = IF RefreshKind(resp) = "transient"
                    THEN persisted ELSE Serialize(settings')
    /\ call' = [call EXCEPT ![c] = AfterAnswer(@, resp, now)]
    /\ UNCHANGED <<syncVars, now, ticks, auth, manual, listenerVars, reply,
                   harnessVars,
                   dataVars>>

\* the 1-second timer of the retry loop has run out at time t
DelayOver(k, t) == t >= k.failedAt + retryDelay

\* the retry delay is over: the loop calls refreshAccessToken again, which
\* throws before any request when the refresh token is gone
RefreshRetry(c) ==
    /\ call[c].pc = "delay"
    /\ DelayOver(call[c], now)
    /\ call' = [call EXCEPT ![c] =
                  IF Truthy(settings.googleRefreshToken)
                  THEN [@ EXCEPT !.pc = "fetch", !.sent = @ + 1]
                  ELSE AfterFailedAttempt(@, "noRefreshToken", now)]
    /\ UNCHANGED <<syncVars, tokenVars, now, ticks, auth, manual,
                   listenerVars, reply,
                   harnessVars, dataVars>>

\* ------------------------------------------------------ OAuthCallbackServer

\* server: this.server is set; listening: that server is bound to the port
NoServer == [server |-> FALSE, listening |-> FALSE,
             callbackPromise |-> 0, callbackResolver |-> 0]

Pending == [tag |-> "pending", code |-> Empty, state |-> Empty]

Resolved(code, state) == [tag |-> "resolved", code |-> code, state |-> state]

\* Close that leaves everything as it is
CloseLeavesOpen(l) == l

\* close(): a server that is set is closed and all three fields are nulled
Close(l) == IF l.server THEN NoServer ELSE l

\* how listen() ends: bound, port taken, or another error
StartOutcomes == {"ok", "EADDRINUSE", "error"}

\* start() rejects: there was no server and listen failed
StartThrows(l, outcome) == ~l.server /\ outcome # "ok"

\* Start that makes a server whether or not one is set
StartRebinds(l, outcome) ==
    CASE outcome = "ok" -> [l EXCEPT !.server = TRUE, !.listening = TRUE]
      [] outcome = "EADDRINUSE" -> Close([l EXCEPT !.server = TRUE])
      [] OTHER -> [l EXCEPT !.server = TRUE]

\* start(): nothing when a server is set; else a server is created and
\* listen is called; on EADDRINUSE the error handler calls close()
Start(l, outcome) ==
    IF l.server THEN l
    ELSE CASE outcome = "ok" -> [l EXCEPT !.server = TRUE, !.listening = TRUE]
           [] outcome = "EADDRINUSE" -> Close([l EXCEPT !.server = TRUE])
           [] OTHER -> [l EXCEPT !.server = TRUE]

\* the resolve function of promise p: a settled promise keeps its value
Resolve(ps, p, code, state) ==
    IF p # 0 /\ ps[p].tag = "pending"
    THEN [ps EXCEPT ![p] = Resolved(code, state)]
    ELSE ps

\* handleCallback(params): a missing parameter resolves with the sentinel
HandleCallback(l, ps, code, state) ==
    IF l.callbackResolver = 0 THEN ps
    ELSE IF ~Truthy(code) \/ ~Truthy(state)
    THEN Resolve(ps, l.callbackResolver, Empty, Empty)
    ELSE Resolve(ps, l.callbackResolver, code, state)

\* HasPromise that never finds the promise of the attempt
HasPromiseNever(l) == FALSE

\* waitForCallback: a promise was already made for this attempt
HasPromise(l) == l.callbackPromise # 0

\* waitForCallback: the promise it returns
WaitPromise(l, ps) ==
    IF HasPromise(l) THEN l.callbackPromise ELSE Len(ps) + 1

\* waitForCallback: the listener's fields after the call
WaitServer(l, ps) ==
    IF HasPromise(l) THEN l
    ELSE [l EXCEPT !.callbackPromise = Len(ps) + 1,
                   !.callbackResolver = Len(ps) + 1]

\* waitForCallback: the promises after the call
WaitPromises(l, ps) == IF HasPromise(l) THEN ps ELSE Append(ps, Pending)

\* waitForCallback: the armed timeouts after the call at time t; the
\* clearTimeout is registered on a callbackPromise that is still null, so
\* a timeout stays armed until it fires
WaitTimers(l, ps, ts, t) ==
    IF HasPromise(l) THEN ts
    ELSE ts \cup {[id |-> Len(ps) + 1, deadline |-> t + callbackTimeout]}

\* a GET /callback reaches the listener: with both parameters it resolves the
\* pending promise and is answered 200, else it is answered 400
HttpCallback(code, state) ==
    /\ oauthServer.listening
    /\ IF Truthy(code) /\ Truthy(state)
       THEN /\ promises' = HandleCallback(oauthServer, promises, code, state)
            /\ reply' = 200
       ELSE /\ promises' = promises
            /\ reply' = 400
    /\ UNCHANGED <<syncVars, tokenVars, now, ticks, call, auth, manual,
                   oauthServer,
                   timers, harnessVars, dataVars>>

\* timeouts of one delay run in the order they were armed
FiresFirst(t, ts) ==
    \A u \in ts : u.deadline > t.deadline
                      \/ (u.deadline = t.deadline /\ u.id >= t.id)

\* the 5-minute timeout armed by waitForCallback for promise t.id fires
CallbackTimeout(t) ==
    /\ t \in timers
    /\ now >= t.deadline
    /\ FiresFirst(t, timers)
    /\ timers' = timers \ {t}
    /\ IF oauthServer.callbackResolver # 0
       THEN /\ promises' = Resolve(promises, t.id, Empty, Empty)
            /\ oauthServer' = Close(oauthServer)
       ELSE UNCHANGED <<promises, oauthServer>>
    /\ UNCHANGED <<syncVars, tokenVars, now, ticks, call, auth, manual, reply,
                   harnessVars, dataVars>>

\* a call of one listener method from outside authenticate()
IdleDirect == [op |-> "none", by |-> "none", was |-> FALSE, threw |-> FALSE,
               turn |-> 0]

\* the record of one such call: the method, the caller, whether the listener
\* was bound before it, whether it rejected; turn tells successive calls apart
DirectCall(op, by, threw) ==
    [op |-> op, by |-> by, was |-> oauthServer.listening, threw |-> threw,
     turn |-> 1 - direct.turn]

\* start() called on its own
DirectStart(outcome) ==
    /\ oauthServer' = Start(oauthServer, outcome)
    /\ direct' = DirectCall("start", "none", StartThrows(oauthServer, outcome))
    /\ UNCHANGED <<syncVars, tokenVars, now, ticks, call, auth, manual,
                   promises, timers,
                   reply, waiters, dataVars>>

\* close() called on its own (as onunload does)
DirectClose ==
    /\ oauthServer' = Close(oauthServer)
    /\ direct' = DirectCall("close", "none", FALSE)
    /\ UNCHANGED <<syncVars, tokenVars, now, ticks, call, auth, manual,
                   promises, timers,
                   reply, waiters, dataVars>>

\* waitForCallback() called on its own by waiter w
DirectWait(w) ==
    /\ waiters' = [waiters EXCEPT ![w] = WaitPromise(oauthServer, promises)]
    /\ oauthServer' = WaitServer(oauthServer, promises)
    /\ promises' = WaitPromises(oauthServer, promises)
    /\ timers' = WaitTimers(oauthServer, promises, timers, now)
    /\ direct' = DirectCall("wait", w, FALSE)
    /\ UNCHANGED <<syncVars, tokenVars, now, ticks, call, auth, manual,
                   reply, dataVars>>

\* ------------------------------------------------------------ authenticate

\* the authenticate() calls that can overlap
AuthCalls == {"u1", "u2"}

IdleAuth == [pc |-> "idle", state |-> Undefined, awaiting |-> 0, wakeAt |-> 0,
             result |-> "none", why |-> "none"]

\* authenticate() is over: result is what it returned ("threw": it rejected)
AuthDone(a, res, why) ==
    [a EXCEPT !.pc = "done", !.awaiting = 0, !.wakeAt = 0,
              !.result = res, !.why = why]

\* authenticate() from its start to the await of waitForCallback: the nonce
\* is stored and saved, the listener is closed and started again, the
\* browser is opened, the wait begins
Authenticate(a, n, outcome) ==
    /\ auth[a].pc \in {"idle", "done"}
    /\ settings' = [settings EXCEPT !.googleAuthState = n]
    /\ persisted' = Serialize(settings')
    /\ LET closed == Close(oauthServer)
           started == Start(closed, outcome) IN
       IF StartThrows(closed, outcome)
       THEN /\ oauthServer' = started
            /\ auth' = [auth EXCEPT ![a] =
                          AuthDone([IdleAuth EXCEPT !.state = n], "threw", "listen")]
            /\ UNCHANGED <<promises, timers>>
       ELSE /\ oauthServer' = WaitServer(started, promises)
            /\ promises' = WaitPromises(started, promises)
            /\ timers' = WaitTimers(started, promises, timers, now)
            /\ auth' = [auth EXCEPT ![a] =
                          [IdleAuth EXCEPT !.pc = "waiting", !.state = n,
                                           !.awaiting = WaitPromise(started, promises)]]
    /\ UNCHANGED <<syncVars, now, ticks, call, manual, reply, harnessVars,
                   dataVars>>

\* authenticate() resumes with the value of the callback promise: the
\* sentinel check, then completeAuthentication up to its request
AuthCallbackReceived(a) ==
    /\ auth[a].pc = "waiting"
    /\ promises[auth[a].awaiting].tag = "resolved"
    /\ LET v == promises[auth[a].awaiting] IN
       IF ~Truthy(v.code) \/ ~Truthy(v.state)
       THEN /\ auth' = [auth EXCEPT ![a] = AuthDone(@, "false", "noCallback")]
            /\ oauthServer' = Close(oauthServer)
       ELSE IF ~StateMatches(v.state, settings)
       THEN /\ auth' = [auth EXCEPT ![a] = AuthDone(@, "false", "stateMismatch")]
            /\ oauthServer' = Close(oauthServer)
       ELSE /\ auth' = [auth EXCEPT ![a].pc = "exchange"]
            /\ UNCHANGED oauthServer
    /\ UNCHANGED <<syncVars, tokenVars, now, ticks, call, manual, promises,
                   timers,
                   reply, harnessVars, dataVars>>

\* the token endpoint answers the authorization-code exchange of authenticate()
AuthExchangeAnswer(a, resp) ==
    /\ auth[a].pc = "exchange"
    /\ settings' = ExchangeSettings(settings, resp, now)
    /\ persisted' = Serialize(settings')
    /\ IF ExchangeOk(resp)
       THEN /\ auth' = [auth EXCEPT ![a].pc = "settle",
                           ![a].wakeAt = now + uiSettleDelay + saveSettleDelay]
            /\ UNCHANGED oauthServer
       ELSE /\ auth' = [auth EXCEPT ![a] = AuthDone(@, "false", "exchange")]
            /\ oauthServer' = Close(oauthServer)
    /\ UNCHANGED <<syncVars, now, ticks, call, manual, promises, timers, reply,
                   harnessVars, dataVars>>

\* the settle delays are over: authenticate() reads the tokens back and returns
AuthVerify(a) ==
    /\ auth[a].pc = "settle"
    /\ now >= auth[a].wakeAt
    /\ auth' = [auth EXCEPT ![a] =
                  IF TokensSaved(settings)
                  THEN AuthDone(@, "true", "none")
                  ELSE AuthDone(@, "false", "notSaved")]
    /\ oauthServer' = Close(oauthServer)
    /\ UNCHANGED <<syncVars, tokenVars, now, ticks, call, manual, promises,
                   timers,
                   reply, harnessVars, dataVars>>

\* ---------------------------------------- completeAuthentication called directly

\* one call: its arguments, where it is and how it ended
IdleManual == [pc |-> "idle", turn |-> 0, code |-> Undefined,
               state |-> Undefined, result |-> "none"]

\* completeAuthentication(code, state) up to its request
CompleteAuthentication(code, state) ==
    /\ manual.pc \in {"idle", "done"}
    /\ manual' = IF StateMatches(state, settings)
                 THEN [pc |-> "exchange", turn |-> 1 - manual.turn,
                       code |-> code, state |-> state, result |-> "none"]
                 ELSE [pc |-> "done", turn |-> 1 - manual.turn,
                       code |-> code, state |-> state,
                       result |-> "stateMismatch"]
    /\ UNCHANGED <<syncVars, tokenVars, now, ticks, call, auth, listenerVars,
                   reply,
                   harnessVars, dataVars>>

\* the token endpoint answers the exchange of the direct call
CompleteAnswer(resp) ==
    /\ manual.pc = "exchange"
    /\ settings' = ExchangeSettings(settings, resp, now)
    /\ persisted' = Serialize(settings')
    /\ manual' = [manual EXCEPT !.pc = "done",
                     !.result = IF ExchangeOk(resp) THEN "ok" ELSE "failed"]
    /\ UNCHANGED <<syncVars, now, ticks, call, auth, listenerVars, reply,
                   harnessVars,
                   dataVars>>

\* ------------------------------------- getMeasurements and addMeasurement

\* lastRequestTime of a new service: 0, which on the model's clock (0 at
\* load) lies at least one interval in the past
NeverRequested == 0 - minRequestInterval

\* rateLimit: how long it waits at time t
RateLimitWait(last, t) ==
    IF t - last < minRequestInterval THEN minRequestInterval - (t - last) ELSE 0

\* one call: the operation, whether it has a second (body fat) request,
\* where it is, the refreshTokenIfNeeded call it awaits (by its turn), the
\* requests it has sent, the token the last one carried, and how it ended
IdleData == [pc |-> "idle", op |-> "none", second |-> FALSE, wakeAt |-> 0,
             turn |-> 0, sent |-> 0, bearer |-> Undefined, result |-> "none"]

NoDispatch == [time |-> 0, by |-> "none"]

\* getMeasurements always asks for weight and body fat; addMeasurement sends
\* the body fat only when one is given
HasSecondRequest(op, bodyFat) == op = "get" \/ bodyFat

\* getMeasurements(...) or addMeasurement(...) up to the end of rateLimit or
\* to its timer
DataCall(c, op, bodyFat) ==
    /\ dataCall[c].pc \in {"idle", "done"}
    /\ call[c].pc \in {"idle", "done"}
    /\ LET wait == RateLimitWait(lastRequestTime, now)
           k == [IdleData EXCEPT !.op = op,
                                 !.second = HasSecondRequest(op, bodyFat),
                                 !.turn = call[c].turn] IN
       IF wait > 0
       THEN /\ dataCall' = [dataCall EXCEPT ![c] =
                          [k EXCEPT !.pc = "rateLimit", !.wakeAt = now + wait]]
            /\ UNCHANGED lastRequestTime
       ELSE /\ dataCall' = [dataCall EXCEPT ![c] = [k EXCEPT !.pc = "token"]]
            /\ lastRequestTime' = now
    /\ UNCHANGED <<syncVars, tokenVars, now, ticks, call, auth, manual,
                   listenerVars,
                   reply, harnessVars, lastDispatch>>

\* the timer of rateLimit has run out: lastRequestTime is stamped
RateLimitOver(c) ==
    /\ dataCall[c].pc = "rateLimit"
    /\ now >= dataCall[c].wakeAt
    /\ dataCall' = [dataCall EXCEPT ![c].pc = "token", ![c].wakeAt = 0]
    /\ lastRequestTime' = now
    /\ UNCHANGED <<syncVars, tokenVars, now, ticks, call, auth, manual,
                   listenerVars,
                   reply, harnessVars, lastDispatch>>

\* the call is about to call refreshTokenIfNeeded
TokenCheckDue(c) == dataCall[c].pc = "token" /\ call[c].turn = dataCall[c].turn

\* refreshTokenIfNeeded has returned or thrown and the call resumes
TokenCheckOver(c) ==
    dataCall[c].pc = "token" /\ call[c].turn # dataCall[c].turn /\ call[c].pc = "done"

\* a continuation that runs before any other event is handled
Resuming(c) == TokenCheckDue(c) \/ TokenCheckOver(c)

\* the call sends a request with the access token as it is now
Dispatch(k, s, n) == [k EXCEPT !.pc = IF n = 1 THEN "first" ELSE "second",
                               !.sent = n, !.bearer = s.googleAccessToken]

\* the call after refreshTokenIfNeeded: its error is thrown on, or the first
\* request is sent
DataDispatch(c) ==
    /\ TokenCheckOver(c)
    /\ IF call[c].result = "ok"
       THEN /\ dataCall' = [dataCall EXCEPT ![c] = Dispatch(@, settings, 1)]
            /\ lastDispatch' = [time |-> now, by |-> c]
       ELSE /\ dataCall' = [dataCall EXCEPT ![c].pc = "done",
                                    ![c].result = call[c].result]
            /\ UNCHANGED lastDispatch
    /\ UNCHANGED <<syncVars, tokenVars, now, ticks, call, auth, manual,
                   listenerVars,
                   reply, harnessVars, lastRequestTime>>

\* the provider answers a data request (ok) or the request fails: after the
\* first answer the second request is sent at once
DataAnswer(c, ok) ==
    /\ dataCall[c].pc \in {"first", "second"}
    /\ IF ~ok
       THEN /\ dataCall' = [dataCall EXCEPT ![c].pc = "done", ![c].result = "failed"]
            /\ UNCHANGED lastDispatch
       ELSE IF dataCall[c].pc = "first" /\ dataCall[c].second
       THEN /\ dataCall' = [dataCall EXCEPT ![c] = Dispatch(@, settings, 2)]
            /\ lastDispatch' = [time |-> now, by |-> c]
       ELSE /\ dataCall' = [dataCall EXCEPT ![c].pc = "done", ![c].result = "ok"]
            /\ UNCHANGED lastDispatch
    /\ UNCHANGED <<syncVars, tokenVars, now, ticks, call, auth, manual,
                   listenerVars,
                   reply, harnessVars, lastRequestTime>>

\* ------------------------------------------------------------ document text

\* A text is a sequence of characters. The characters the code looks for
\* are kept one by one; a run of other characters (a word, a value that a
\* template placeholder was replaced by) is one element of its own.
Ch(c) == [ch |-> c]

Sp == Ch(" ")

NL == Ch("newline")

Bar == Ch("|")

\* the three backquotes of a code fence, and the word after them
Fence == Ch("fence")

Mermaid == Ch("mermaid")

\* \s
IsSpace(c) == c \in {Sp, NL}

\* the text without its first n characters
Drop(text, n) == SubSeq(text, n + 1, Len(text))

\* how many characters of white space the text starts with
RECURSIVE LeadingSpaces(_)
LeadingSpaces(text) ==
    IF text # <<>> /\ IsSpace(Head(text)) THEN 1 + LeadingSpaces(Tail(text)) ELSE 0

\* how many characters of white space the text ends with
RECURSIVE TrailingSpaces(_)
TrailingSpaces(text) ==
    IF text # <<>> /\ IsSpace(text[Len(text)])
    THEN 1 + TrailingSpaces(SubSeq(text, 1, Len(text) - 1))
    ELSE 0

\* String.prototype.trim
Trim(text) ==
    IF LeadingSpaces(text) = Len(text) THEN <<>>
    ELSE SubSeq(text, LeadingSpaces(text) + 1, Len(text) - TrailingSpaces(text))

\* the place of the first c at or after place i, 0 if there is none
RECURSIVE IndexFrom(_, _, _)
IndexFrom(text, c, i) ==
    IF i > Len(text) THEN 0
    ELSE IF text[i] = c THEN i
    ELSE IndexFrom(text, c, i + 1)

\* content.split(sep)
RECURSIVE Split(_, _)
Split(text, sep) ==
    LET i == IndexFrom(text, sep, 1) IN
    IF i = 0 THEN <<text>>
    ELSE <<SubSeq(text, 1, i - 1)>> \o Split(Drop(text, i), sep)

\* text.replace(/^>?\s*/, '')
StripCallout(text) ==
    LET rest == IF text # <<>> /\ Head(text) = Ch(">") THEN Tail(text) ELSE text IN
    Drop(rest, LeadingSpaces(rest))

\* how many characters /^\s*-\s*\[[^\]]+\]\s*/ matches at the start of the
\* text: 0 when it does not match
TaskMarkerLength(text) ==
    LET dash == LeadingSpaces(text) + 1
        open == dash + 1 + LeadingSpaces(Drop(text, dash))
        close == IndexFrom(text, Ch("]"), open + 1)
    IN  IF /\ dash <= Len(text) /\ text[dash] = Ch("-")
           /\ open <= Len(text) /\ text[open] = Ch("[")
           /\ close > open + 1
        THEN close + LeadingSpaces(Drop(text, close))
        ELSE 0

\* text.replace(/^\s*-\s*\[[^\]]+\]\s*/, '')
StripTaskMarker(text) == Drop(text, TaskMarkerLength(text))

\* normalizeEntry that leaves the callout marker in place
NormalizeEntryKeepsCallout(text) == Trim(StripTaskMarker(text))

\* normalizeEntry
NormalizeEntry(text) == Trim(StripTaskMarker(StripCallout(text)))

\* hasExistingEntry that finds no line
HasExistingEntryNever(content, entry) == FALSE

\* JournalService.hasExistingEntry
HasExistingEntry(content, entry) ==
    LET lines == Split(content, NL) IN
    \E i \in 1..Len(lines) : NormalizeEntry(lines[i]) = NormalizeEntry(entry)

\* fileContent.replace(/\n+$/, '')
RECURSIVE StripTrailingNewlines(_)
StripTrailingNewlines(text) ==
    IF text # <<>> /\ text[Len(text)] = NL
    THEN StripTrailingNewlines(SubSeq(text, 1, Len(text) - 1))
    ELSE text

\* ------------------------------------------------- records and their entries

\* a value that a template placeholder was replaced by: a number with one
\* decimal place (in tenths) and a date with its minute ('YYYY-MM-DD HH:mm')
Val(tenths) == [val |-> tenths]

Date(minute) == [date |-> minute]

\* a field a MeasurementRecord does not have
NoValue == 0 - 1

\* data[measurement.name]
RecordValue(data, name) ==
    IF name = "Weight" THEN data.weight
    ELSE IF name = "Body Fat" THEN data.bodyFat
    ELSE NoValue

\* the unit of a measurement type in a measurement system
UnitOf(type, system) ==
    IF type = "weight" THEN (IF system = "metric" THEN "kg" ELSE "lbs")
    ELSE (IF system = "metric" THEN "cm" ELSE "in")

\* the configured measurements the record has a value for, in their order
Measured(data, pr) ==
    SelectSeq(pr.measurements, LAMBDA m : RecordValue(data, m.name) # NoValue)

\* a document of the vault that does not exist yet
NoFile == [exists |-> FALSE, content |-> <<>>]

File(content) == [exists |-> TRUE, content |-> content]

\* ---------------------------------------------------------- JournalService

\* the entry template '<measured>: <measure> <unit>' with its placeholders
\* replaced
EntryContent(m, data, pr) ==
    <<Ch(m.name), Ch(":"), Sp, Val(RecordValue(data, m.name)), Sp,
      Ch(UnitOf(m.type, pr.measurementSystem))>>

\* the journal line of one measurement: the entry, the task prefix and, if
\* enabled, the callout marker
JournalEntry(m, data, pr) ==
    LET entry == <<Ch("-"), Sp, Ch("["), Ch(pr.stringPrefixLetter), Ch("]"), Sp>>
                     \o EntryContent(m, data, pr)
    IN  IF pr.enableJournalEntryCallout THEN <<Ch(">"), Sp>> \o entry ELSE entry

\* the file content an entry is added to
EntryBase(fileContent, callout) ==
    IF fileContent = <<>> THEN fileContent
    ELSE IF callout THEN StripTrailingNewlines(fileContent) \o <<NL>>
    ELSE IF fileContent[Len(fileContent)] # NL THEN fileContent \o <<NL>>
    ELSE fileContent

\* one turn of appendToJournal's loop: the file after it
AppendEntry(file, entry, callout) ==
    IF HasExistingEntry(file.content, entry) THEN file
    ELSE File(EntryBase(file.content, callout) \o entry \o <<NL>>)

\* appendToJournal's loop over the measurements ms, from the n-th of them; a
\* read or write that the vault rejects at measurement failAt ends the call
RECURSIVE AppendEntries(_, _, _, _, _, _)
AppendEntries(file, ms, n, data, pr, failAt) ==
    IF n > Len(ms) THEN [file |-> file, threw |-> FALSE]
    ELSE IF n = failAt THEN [file |-> file, threw |-> TRUE]
    ELSE AppendEntries(
             AppendEntry(file, JournalEntry(ms[n], data, pr),
                         pr.enableJournalEntryCallout),
             ms, n + 1, data, pr, failAt)

\* JournalService.appendToJournal(data) on the journal file of data's day
AppendToJournal(file, data, pr, failAt) ==
    AppendEntries(file, Measured(data, pr), 1, data, pr, failAt)

\* ------------------------------------------------------- MeasurementService

\* the heading and table head of a new measurement file
DefaultHeader(name) ==
    <<Ch("#"), Sp, Ch(name), Sp, Ch("History"), NL, NL,
      Bar, Sp, Ch("Date"), Sp, Bar, Sp, Ch("User"), Sp, Bar, Sp, Ch("Value"), Sp,
      Bar, NL,
      Bar, Ch("------"), Bar, Ch("------"), Bar, Ch("-------"), Bar, NL>>

\* the table row of one measurement: '| <date> | <user> | <measure> <unit> |'
\* for a user that is not configured
MeasurementEntry(m, data, pr) ==
    <<Bar, Sp, Date(data.date), Sp, Bar, Sp, Ch("Unknown"), Sp, Bar, Sp,
      Val(RecordValue(data, m.name)), Sp, Ch(UnitOf(m.type, pr.measurementSystem)),
      Sp, Bar>>

\* line.includes(unit)
Includes(line, c) == \E i \in 1..Len(line) : line[i] = c

\* content.split('\n').filter(line => line.startsWith('|') && line.includes(unit))
TableLines(content, unit) ==
    SelectSeq(Split(content, NL),
              LAMBDA line : line # <<>> /\ Head(line) = Bar /\ Includes(line, Ch(unit)))

\* value.replace(unit, '')
WithoutUnit(cell, unit) ==
    LET i == IndexFrom(cell, Ch(unit), 1) IN
    IF i = 0 THEN cell ELSE SubSeq(cell, 1, i - 1) \o Drop(cell, i)

\* const [date, , value] = line.split('|').map(cell => cell.trim())
Cells(line) == Split(line, Bar)

\* a table line with fewer than three cells: value is undefined and
\* value.replace throws
Unreadable(line) == Len(Cells(line)) < 3

\* the chart point read from a table line
PointOf(line, unit) ==
    [pointDate |-> Trim(Cells(line)[1]),
     pointValue |-> Trim(WithoutUnit(Trim(Cells(line)[3]), unit))]

\* the chart lines of the points
RECURSIVE ChartData(_)
ChartData(points) ==
    IF points = <<>> THEN <<>>
    ELSE <<NL, points[1]>> \o ChartData(Tail(points))

\* formatMermaidChart: every point read from the table has the empty date
\* (its line starts with '|'), so the sort leaves the points in their order
FormatMermaidChart(points) ==
    <<Fence, Mermaid, NL, Ch("xychart-beta"), NL, Ch("title"), NL,
      [axisFrom |-> points[1].pointDate,
       axisTo |-> points[Len(points)].pointDate], NL,
      Ch("y-axis"), NL, Ch("line")>>
        \o ChartData(points) \o <<NL, Fence>>

\* where the first mermaid fence of the text starts, 0 if there is none
RECURSIVE ChartStart(_, _)
ChartStart(text, i) ==
    IF i >= Len(text) THEN 0
    ELSE IF text[i] = Fence /\ text[i + 1] = Mermaid THEN i
    ELSE ChartStart(text, i + 1)

\* newContent.replace(/<fence>mermaid[\s\S]*?<fence>/, chartSection)
ReplaceChart(text, chartSection) ==
    LET i == ChartStart(text, 1)
        j == IF i = 0 THEN 0 ELSE IndexFrom(text, Fence, i + 2)
    IN  IF j = 0 THEN text
        ELSE SubSeq(text, 1, i - 1) \o chartSection \o Drop(text, j)

\* the content updateMeasurementFiles writes: the row and a chart after a
\* content that has no chart, the chart replaced in one that has
NewContent(content, entry, chartSection) ==
    IF ChartStart(Trim(content), 1) # 0
    THEN ReplaceChart(Trim(content), chartSection)
    ELSE Trim(content) \o <<NL>> \o entry \o <<NL, NL>> \o chartSection

\* one turn of updateMeasurementFiles' loop: the file of measurement m
\* after it, or the file as it was if a table line cannot be read
UpdateFile(file, m, data, pr) ==
    LET unit == UnitOf(m.type, pr.measurementSystem)
        tableLines == IF file.exists THEN TableLines(file.content, unit) ELSE <<>>
        content == IF file.exists THEN file.content ELSE DefaultHeader(m.name)
        point == [pointDate |-> <<Date(data.date)>>,
                  pointValue |-> <<Val(RecordValue(data, m.name))>>]
        measurementData ==
            [i \in 1..Len(tableLines) |-> PointOf(tableLines[i], unit)]
                \o <<point>>
    IN  IF \E i \in 1..Len(tableLines) : Unreadable(tableLines[i])
        THEN [file |-> file, threw |-> TRUE]
        ELSE [file |-> File(NewContent(content, MeasurementEntry(m, data, pr),
                                       FormatMermaidChart(measurementData))),
              threw |-> FALSE]

\* ------------------------------------- getMeasurements: the provider's answers

\* startTimeNanos is a string of digits: its last nine are the nanoseconds
\* within the second, the ones before them the epoch seconds
Nanos(seconds, nanos) == [seconds |-> seconds, nanos |-> nanos]

\* Math.floor(parseInt(point.startTimeNanos) / 1000000000): the digits
\* before the last nine
Timestamp(startTimeNanos) == startTimeNanos.seconds

\* a dataset point; fpVal is in hundredths, and a point whose value array is
\* empty has none
Point(startTimeNanos, fpVals) == [startTimeNanos |-> startTimeNanos, value |-> fpVals]

\* a response body that JSON.parse rejects
Malformed == [json |-> FALSE, point |-> <<>>]

\* a dataset; one without a point field reads like one with no points
Dataset(points) == [json |-> TRUE, point |-> points]

\* JSON.parse, or reading point.value[0].fpVal, throws
Unparsable(response) ==
    \/ ~response.json
    \/ \E i \in 1..Len(response.point) : response.point[i].value = <<>>

\* the measurements made of the weight points
WeightMeasurements(points) ==
    [i \in 1..Len(points) |->
        [date |-> Timestamp(points[i].startTimeNanos),
         weight |-> points[i].value[1], bodyFat |-> NoValue]]

\* measurements.find(m => m.date === timestamp): its place, 0 if none
RECURSIVE FindDate(_, _, _)
FindDate(measurements, timestamp, i) ==
    IF i > Len(measurements) THEN 0
    ELSE IF measurements[i].date = timestamp THEN i
    ELSE FindDate(measurements, timestamp, i + 1)

\* the loop over the body-fat points
RECURSIVE MergeBodyFat(_, _)
MergeBodyFat(measurements, points) ==
    IF points = <<>> THEN measurements
    ELSE LET timestamp == Timestamp(Head(points).startTimeNanos)
             found == FindDate(measurements, timestamp, 1)
             fpVal == Head(points).value[1]
         IN  MergeBodyFat(
                 IF found # 0
                 THEN [measurements EXCEPT ![found].bodyFat = fpVal]
                 ELSE Append(measurements,
                             [date |-> timestamp, weight |-> NoValue,
                              bodyFat |-> fpVal]),
                 Tail(points))

\* how a getMeasurements call can go: refreshTokenIfNeeded throws, one of
\* the two requests fails, or both are answered
FetchOutcomes == {"tokenFailed", "weightFailed", "bodyFatFailed", "answered"}

\* getMeasurements: what it returns, or that it throws, and whether its
\* catch block showed its Notice
GetMeasurements(outcome, remote) ==
    IF outcome = "tokenFailed"
    THEN [threw |-> TRUE, notice |-> FALSE, measurements |-> <<>>]
    ELSE IF \/ outcome \in {"weightFailed", "bodyFatFailed"}
            \/ Unparsable(remote.weight)
            \/ Unparsable(remote.bodyFat)
    THEN [threw |-> TRUE, notice |-> TRUE, measurements |-> <<>>]
    ELSE [threw |-> FALSE, notice |-> FALSE,
          measurements |->
              MergeBodyFat(WeightMeasurements(remote.weight.point),
                           remote.bodyFat.point)]

\* ------------------------------------------------------------ syncGoogleFit

\* the MeasurementRecord syncGoogleFit makes of a measurement.
\* ToFixed1 is weight.toFixed(1) for a value in hundredths: the value in
\* tenths; PoundsToFixed1 is (weight * 2.20462).toFixed(1); FormatMinute is
\* moment(date * 1000).format('YYYY-MM-DD HH:mm'): the minute; NumberTruthy
\* is a number that is not undefined and not 0
RecordOf(measurement, pr) ==
    LET ToFixed1(hundredths) == (hundredths + 5) \div 10
        PoundsToFixed1(hundredths) ==
            (hundredths * 220462 + 500000) \div 1000000
        FormatMinute(date) == date \div 60
        NumberTruthy(x) == x # NoValue /\ x # 0
    IN
    [date |-> FormatMinute(measurement.date),
     weight |-> IF NumberTruthy(measurement.weight)
                THEN (IF pr.measurementSystem = "imperial"
                      THEN PoundsToFixed1(measurement.weight)
                      ELSE ToFixed1(measurement.weight))
                ELSE NoValue,
     bodyFat |-> IF NumberTruthy(measurement.bodyFat)
                 THEN ToFixed1(measurement.bodyFat)
                 ELSE NoValue]

\* the documents of the vault: the journal file of the day and the file of
\* each measurement
Documents == {"journal", "Weight", "Body Fat"}

\* updateMeasurementFiles' loop over the measurements ms, from the n-th of
\* them; a read or write that the vault rejects at measurement failAt, or a
\* table line that cannot be read, ends the call
RECURSIVE UpdateFiles(_, _, _, _, _, _)
UpdateFiles(v, ms, n, data, pr, failAt) ==
    IF n > Len(ms) THEN [vault |-> v, threw |-> FALSE]
    ELSE IF n = failAt THEN [vault |-> v, threw |-> TRUE]
    ELSE LET one == UpdateFile(v[ms[n].name], ms[n], data, pr) IN
         IF one.threw THEN [vault |-> v, threw |-> TRUE]
         ELSE UpdateFiles([v EXCEPT ![ms[n].name] = one.file],
                          ms, n + 1, data, pr, failAt)

\* MeasurementService.updateMeasurementFiles(data)
UpdateMeasurementFiles(v, data, pr, failAt) ==
    UpdateFiles(v, Measured(data, pr), 1, data, pr, failAt)

\* no read or write is rejected
NoFailure == [in |-> "none", at |-> 0]

\* the body of syncGoogleFit's loop for one record: the vault after it, and
\* whether one of the two writers threw
SaveRecord(v, data, pr, failure) ==
    LET files == IF pr.enableMeasurementFiles
                 THEN UpdateMeasurementFiles(
                          v, data, pr,
                          IF failure.in = "files" THEN failure.at ELSE 0)
                 ELSE [vault |-> v, threw |-> FALSE]
        journal == IF pr.enableJournalEntry /\ ~files.threw
                   THEN AppendToJournal(
                            files.vault["journal"], data, pr,
                            IF failure.in = "journal" THEN failure.at ELSE 0)
                   ELSE [file |-> files.vault["journal"], threw |-> FALSE]
    IN  [vault |-> [files.vault EXCEPT !["journal"] = journal.file],
         threw |-> files.threw \/ journal.threw]

\* no run yet; runs counts the runs that ended, completed the ones that
\* ended without an exception
IdleSync ==
    [pc |-> "idle", measurements |-> <<>>, next |-> 0, notices |-> <<>>,
     result |-> "none", fetched |-> "none", wrote |-> 0, failure |-> NoFailure,
     runs |-> 0, completed |-> 0]

\* the run ends: with the success Notice, or in the catch block
SyncEnds(k, ok) ==
    [k EXCEPT !.pc = "done",
              !.result = IF ok THEN "ok" ELSE "failed",
              !.notices = Append(@, IF ok THEN "synced" ELSE "syncFailed"),
              !.runs = @ + 1,
              !.completed = IF ok THEN @ + 1 ELSE @]

\* syncGoogleFit() up to its getMeasurements call; without a service or an
\* access token it returns at once
SyncGoogleFit ==
    /\ sync.pc \in {"idle", "done"}
    /\ sync.runs < MaxRuns
    /\ plugin.googleFitService
    /\ Truthy(settings.googleAccessToken)
    /\ sync' = [IdleSync EXCEPT !.pc = "fetch", !.runs = sync.runs,
                                !.completed = sync.completed]
    /\ UNCHANGED <<tokenVars, now, ticks, call, auth, manual, listenerVars,
                   reply, harnessVars, dataVars, prefs, provider, running, vault,
                   written, scheduleVars>>

\* getMeasurements returns or throws: the run goes on to its first record,
\* or ends
FetchAnswered(outcome) ==
    /\ sync.pc = "fetch"
    /\ LET got == GetMeasurements(outcome, provider)
           k == [sync EXCEPT !.fetched = outcome,
                             !.measurements = got.measurements,
                             !.next = 1,
                             !.notices = IF got.notice
                                         THEN Append(@, "fetchFailed") ELSE @]
       IN  sync' = IF got.threw THEN SyncEnds(k, FALSE)
                   ELSE IF got.measurements = <<>> THEN SyncEnds(k, TRUE)
                   ELSE [k EXCEPT !.pc = "write"]
    /\ UNCHANGED <<tokenVars, now, ticks, call, auth, manual, listenerVars,
                   reply, harnessVars, dataVars, prefs, provider, running, vault,
                   written, scheduleVars>>

\* one turn of the loop over the measurements: the record's documents are
\* written, and the run goes on, ends, or is ended by a rejected write. The
\* vault can reject the read or write for the at-th measurement of the
\* record, in a writer that does run
WriteRecord(failure) ==
    /\ sync.pc = "write"
    /\ LET data == RecordOf(sync.measurements[sync.next], prefs)
           saved == SaveRecord(vault, data, prefs, failure)
           k == [sync EXCEPT !.next = @ + 1, !.failure = failure]
       IN  /\ \/ failure = NoFailure
              \/ /\ failure.in \in {"files", "journal"}
                 /\ failure.at \in 1..Len(Measured(data, prefs))
           /\ \/ failure.in = "none"
              \/ failure.in = "files" /\ prefs.enableMeasurementFiles
              \/ failure.in = "journal" /\ prefs.enableJournalEntry
           /\ vault' = saved.vault
           /\ sync' = IF saved.threw THEN SyncEnds(k, FALSE)
                      ELSE IF sync.next = Len(sync.measurements)
                      THEN SyncEnds([k EXCEPT !.wrote = @ + 1], TRUE)
                      ELSE [k EXCEPT !.wrote = @ + 1]
    /\ UNCHANGED <<tokenVars, now, ticks, call, auth, manual, listenerVars,
                   reply, harnessVars, dataVars, prefs, provider, running, written,
                   scheduleVars>>

\* ------------------------------------------- sync runs under way together

\* syncGoogleFit holds no lock: the callback of the interval timer and the
\* callback of the command each start a run, whatever else is under way
SyncRuns == {"timer", "command"}

\* a run that has not started; entries are the journal lines it has still to
\* write, fileContent the content it made of what it read
IdleRun == [pc |-> "idle", entries |-> <<>>, fileContent |-> <<>>]

\* the journal lines the loop over the measurements hands to appendToJournal,
\* in the order of the loop
RECURSIVE EntriesOf(_, _)
EntriesOf(measurements, pr) ==
    IF measurements = <<>> THEN <<>>
    ELSE LET data == RecordOf(Head(measurements), pr)
             ms == Measured(data, pr)
         IN  [i \in 1..Len(ms) |-> JournalEntry(ms[i], data, pr)]
                 \o EntriesOf(Tail(measurements), pr)

\* the run goes on to its next journal line, or ends
NextEntry(k) ==
    [pc |-> IF Len(k.entries) > 1 THEN "read" ELSE "done",
     entries |-> Tail(k.entries), fileContent |-> <<>>]

\* syncGoogleFit() of run r, answered by the provider: the run enters its
\* loop over the measurements
RunStarts(r) ==
    /\ running[r].pc = "idle"
    /\ plugin.googleFitService
    /\ Truthy(settings.googleAccessToken)
    /\ LET got == GetMeasurements("answered", provider)
           entries == IF got.threw \/ ~prefs.enableJournalEntry THEN <<>>
                      ELSE EntriesOf(got.measurements, prefs)
       IN  running' = [running EXCEPT ![r] =
                          [pc |-> IF entries = <<>> THEN "done" ELSE "read",
                           entries |-> entries, fileContent |-> <<>>]]
    /\ UNCHANGED <<tokenVars, now, ticks, call, auth, manual, listenerVars,
                   reply, harnessVars, dataVars, prefs, provider, vault, sync,
                   written, scheduleVars>>

\* appendToJournal of run r reads the journal file for its next line (await
\* vault.read), and makes the content to write unless the line is there
RunReads(r) ==
    /\ running[r].pc = "read"
    /\ LET entry == Head(running[r].entries)
           file == vault["journal"]
       IN  running' = [running EXCEPT ![r] =
               IF HasExistingEntry(file.content, entry) THEN NextEntry(@)
               ELSE [@ EXCEPT !.pc = "write",
                              !.fileContent =
                                  AppendEntry(file, entry,
                                      prefs.enableJournalEntryCallout).content]]
    /\ UNCHANGED <<tokenVars, now, ticks, call, auth, manual, listenerVars,
                   reply, harnessVars, dataVars, prefs, provider, vault, sync,
                   written, scheduleVars>>

\* the write of run r reaches the file (await vault.modify): the file holds
\* what the run made of its own read
RunWrites(r) ==
    /\ running[r].pc = "write"
    /\ vault' = [vault EXCEPT !["journal"] = File(running[r].fileContent)]
    /\ running' = [running EXCEPT ![r] = NextEntry(@)]
    /\ UNCHANGED <<tokenVars, now, ticks, call, auth, manual, listenerVars,
                   reply, harnessVars, dataVars, prefs, provider, sync,
                   written, scheduleVars>>

\* ------------------------------------------- the document writers called alone

\* no call yet
NoCall == [op |-> "none", data |-> [date |-> 0, weight |-> NoValue, bodyFat |-> NoValue],
           times |-> 0, calls |-> 0]

\* the call op(data) is recorded: how many times in a row it was made with
\* the same record
Called(w, op, data) ==
    [op |-> op, data |-> data,
     times |-> IF w.op = op /\ w.data = data THEN w.times + 1 ELSE 1,
     calls |-> w.calls + 1]

\* journalService.appendToJournal(data), as saveMeasurement calls it for a
\* record entered by hand
CallAppendToJournal(data) ==
    /\ written.calls < MaxCalls
    /\ sync.pc \in {"idle", "done"}
    /\ vault' = [vault EXCEPT !["journal"] =
                     AppendToJournal(vault["journal"], data, prefs, 0).file]
    /\ written' = Called(written, "appendToJournal", data)
    /\ UNCHANGED <<tokenVars, now, ticks, call, auth, manual, listenerVars,
                   reply, harnessVars, dataVars, prefs, provider, running, sync,
                   scheduleVars>>

\* measurementService.updateMeasurementFiles(data) for a record entered by
\* hand
CallUpdateMeasurementFiles(data) ==
    /\ written.calls < MaxCalls
    /\ sync.pc \in {"idle", "done"}
    /\ vault' = UpdateMeasurementFiles(vault, data, prefs, 0).vault
    /\ written' = Called(written, "updateMeasurementFiles", data)
    /\ UNCHANGED <<tokenVars, now, ticks, call, auth, manual, listenerVars,
                   reply, harnessVars, dataVars, prefs, provider, running, sync,
                   scheduleVars>>

\* the "Use callout" toggle of the journal settings
ToggleCallout(value) ==
    /\ prefs.enableJournalEntryCallout # value
    /\ prefs' = [prefs EXCEPT !.enableJournalEntryCallout = value]
    /\ written' = [written EXCEPT !.op = "none", !.times = 0]
    /\ UNCHANGED <<tokenVars, now, ticks, call, auth, manual, listenerVars,
                   reply, harnessVars, dataVars, provider, running, vault, sync,
                   scheduleVars>>

\* ------------------------------------------------------ the sync schedule

\* what the auto-sync interval field can be set to (minutes): parseInt makes 0
\* of an empty field
IntervalValues == {0, 30, 60}

\* window.setInterval: the new timer's id is its place in the list
SetInterval(iv, minutes) == Append(iv, [minutes |-> minutes, armed |-> TRUE])

\* window.clearInterval(id)
ClearInterval(iv, id) ==
    [i \in 1..Len(iv) |-> IF i = id THEN [iv[i] EXCEPT !.armed = FALSE] ELSE iv[i]]

\* the timers that are armed
Armed(iv) == {i \in 1..Len(iv) : iv[i].armed}

\* a plugin that is not loaded; googleFitSyncInterval 0 stands for undefined
Unloaded == [loaded |-> FALSE, googleFitService |-> FALSE, googleFitSyncInterval |-> 0]

\* if (this.googleFitSyncInterval) { clearInterval; = undefined }, on the
\* plugin w.plugin and the window's timers w.intervals
ClearSyncInterval(w) ==
    IF w.plugin.googleFitSyncInterval # 0
    THEN [plugin |-> [w.plugin EXCEPT !.googleFitSyncInterval = 0],
          intervals |-> ClearInterval(w.intervals, w.plugin.googleFitSyncInterval)]
    ELSE w

\* setInterval(() => this.syncGoogleFit(), minutes * 60 * 1000) kept in
\* googleFitSyncInterval
ArmSyncInterval(w, pr) ==
    IF pr.enableGoogleFit /\ pr.googleAutoSyncInterval > 0
    THEN [plugin |-> [w.plugin EXCEPT
                        !.googleFitSyncInterval = Len(w.intervals) + 1],
          intervals |-> SetInterval(w.intervals, pr.googleAutoSyncInterval)]
    ELSE w

\* setupGoogleFitSync that arms without cancelling
SetupGoogleFitSyncStacks(w, pr) == ArmSyncInterval(w, pr)

\* setupGoogleFitSync
SetupGoogleFitSync(w, pr) == ArmSyncInterval(ClearSyncInterval(w), pr)

\* both API credentials are entered
HasCredentials(pr) == Truthy(pr.googleClientId) /\ Truthy(pr.googleClientSecret)

\* setupGoogleFitService does make a new GoogleFitService
MakesService(pr) == pr.enableGoogleFit /\ HasCredentials(pr)

\* setupGoogleFitService
SetupGoogleFitService(w, pr) ==
    IF pr.enableGoogleFit
    THEN IF ~HasCredentials(pr)
         THEN w
         ELSE SetupGoogleFitSync(
                  [w EXCEPT !.plugin.googleFitService = TRUE], pr)
    ELSE ClearSyncInterval([w EXCEPT !.plugin.googleFitService = FALSE])

\* the plugin and the window's timers as they are now
World == [plugin |-> plugin, intervals |-> intervals]

\* onload after loadSettings, on timers iv
Loaded(iv, pr) ==
    SetupGoogleFitSync(
        SetupGoogleFitService(
            [plugin |-> [Unloaded EXCEPT !.loaded = TRUE], intervals |-> iv], pr),
        pr)

\* a new GoogleFitService has a new listener and has sent no request
NewService(made) ==
    IF made
    THEN /\ oauthServer' = NoServer
         /\ lastRequestTime' = NeverRequested
    ELSE UNCHANGED <<oauthServer, lastRequestTime>>

\* the plugin is enabled: onload
Onload ==
    /\ ~plugin.loaded
    /\ Len(intervals) + 2 <= MaxIntervals
    /\ settings' = LoadSettings(persisted, now)
    /\ LET w == Loaded(intervals, prefs) IN
          /\ plugin' = w.plugin
          /\ intervals' = w.intervals
    /\ NewService(MakesService(prefs))
    /\ UNCHANGED <<persisted, now, ticks, call, auth, manual, promises, timers,
                   reply, harnessVars, dataCall, lastDispatch, documentVars>>

\* the plugin is disabled: onunload
Onunload ==
    /\ plugin.loaded
    /\ LET w == ClearSyncInterval(World) IN
          /\ plugin' = [w.plugin EXCEPT !.loaded = FALSE,
                                        !.googleFitService = FALSE]
          /\ intervals' = w.intervals
    /\ oauthServer' = IF plugin.googleFitService THEN Close(oauthServer)
                      ELSE oauthServer
    /\ UNCHANGED <<tokenVars, now, ticks, call, auth, manual, promises, timers,
                   reply, harnessVars, dataVars, documentVars>>

\* the "Enable Google Fit Integration" toggle of the settings tab
ToggleGoogleFit(value) ==
    /\ plugin.loaded
    /\ Len(intervals) < MaxIntervals
    /\ prefs' = [prefs EXCEPT !.enableGoogleFit = value]
    /\ LET w == IF value THEN SetupGoogleFitService(World, prefs')
                ELSE [World EXCEPT !.plugin.googleFitService = FALSE] IN
          /\ plugin' = w.plugin
          /\ intervals' = w.intervals
    /\ NewService(value /\ MakesService(prefs'))
    /\ UNCHANGED <<tokenVars, now, ticks, call, auth, manual, promises, timers,
                   reply, harnessVars, dataCall, lastDispatch, provider, running, vault,
                   sync, written>>

\* the "Client ID" or the "Client Secret" field of the settings tab
ChangeCredential(field, value) ==
    /\ plugin.loaded
    /\ Len(intervals) < MaxIntervals
    /\ prefs' = [prefs EXCEPT ![field] = value]
    /\ LET w == SetupGoogleFitService(World, prefs') IN
          /\ plugin' = w.plugin
          /\ intervals' = w.intervals
    /\ NewService(MakesService(prefs'))
    /\ UNCHANGED <<tokenVars, now, ticks, call, auth, manual, promises, timers,
                   reply, harnessVars, dataCall, lastDispatch, provider, running, vault,
                   sync, written>>

\* the "Auto-Sync Interval" field of the settings tab
ChangeInterval(minutes) ==
    /\ plugin.loaded
    /\ Len(intervals) < MaxIntervals
    /\ prefs' = [prefs EXCEPT !.googleAutoSyncInterval = minutes]
    /\ LET w == SetupGoogleFitSync(World, prefs') IN
          /\ plugin' = w.plugin
          /\ intervals' = w.intervals
    /\ UNCHANGED <<tokenVars, now, ticks, call, auth, manual, listenerVars,
                   reply, harnessVars, dataVars, provider, running, vault, sync, written>>

\* the timer with id i fires: its callback calls syncGoogleFit()
IntervalFires(i) ==
    /\ i \in Armed(intervals)
    /\ SyncGoogleFit

\* --------------------------------------------------------------- the plugin

\* the Disconnect button of the settings tab
Disconnect ==
    /\ HasValidTokens(settings, now)
    /\ settings' = ClearTokens(settings)
    /\ persisted' = Serialize(settings')
    /\ UNCHANGED <<syncVars, now, ticks, call, auth, manual, listenerVars,
                   reply,
                   harnessVars, dataVars>>

\* the application is closed and started again: onload runs loadSettings on
\* data.json, and nothing that was in flight survives
Restart ==
    /\ settings' = LoadSettings(persisted, now)
    /\ call' = [c \in Callers |-> IdleCall]
    /\ auth' = [a \in AuthCalls |-> IdleAuth]
    /\ manual' = IdleManual
    /\ oauthServer' = NoServer
    /\ promises' = <<>>
    /\ timers' = {}
    /\ reply' = 0
    /\ direct' = IdleDirect
    /\ waiters' = [w \in Waiters |-> 0]
    /\ dataCall' = [c \in Callers |-> IdleData]
    /\ lastRequestTime' = NeverRequested
    /\ lastDispatch' = NoDispatch
    /\ sync' = IdleSync
    /\ written' = NoCall
    /\ plugin' = Loaded(<<>>, prefs).plugin
    /\ intervals' = Loaded(<<>>, prefs).intervals
    /\ UNCHANGED <<persisted, now, ticks, prefs, provider, running, vault>>

\* time passes
Tick(d) ==
    /\ ticks < MaxTicks
    /\ now' = now + d
    /\ ticks' = ticks + 1
    /\ UNCHANGED <<syncVars, tokenVars, call, auth, manual, listenerVars, reply,
                   harnessVars, dataVars>>

\* ------------------------------------------------------------ specification

\* the settings of a user who enabled the integration, entered the API
\* credentials and configured the two measurements the sync fills in
ConfiguredPrefs ==
    [enableGoogleFit |-> TRUE, googleClientId |-> "id",
     googleClientSecret |-> "secret", googleAutoSyncInterval |-> 60,
     measurementSystem |-> "metric", enableMeasurementFiles |-> TRUE,
     enableJournalEntry |-> TRUE, enableJournalEntryCallout |-> FALSE,
     stringPrefixLetter |-> "b",
     measurements |-> <<[name |-> "Weight", type |-> "weight"],
                        [name |-> "Body Fat", type |-> "weight"]>>]

\* a provider that holds no point
EmptyProvider == [weight |-> Dataset(<<>>), bodyFat |-> Dataset(<<>>)]

\* a vault in which none of the documents exists
EmptyVault == [d \in Documents |-> NoFile]

\* the settings, the provider and the vault the token and listener
\* specifications run on
InitDocuments ==
    /\ prefs = ConfiguredPrefs
    /\ provider = EmptyProvider
    /\ vault = EmptyVault

\* the plugin after onload
InitLoaded ==
    /\ plugin = Loaded(<<>>, prefs).plugin
    /\ intervals = Loaded(<<>>, prefs).intervals

\* everything but the stored credential, as it is after construction
InitProcesses ==
    /\ now = 0
    /\ ticks = 0
    /\ call = [c \in Callers |-> IdleCall]
    /\ auth = [a \in AuthCalls |-> IdleAuth]
    /\ manual = IdleManual
    /\ oauthServer = NoServer
    /\ promises = <<>>
    /\ timers = {}
    /\ reply = 0
    /\ direct = IdleDirect
    /\ waiters = [w \in Waiters |-> 0]
    /\ dataCall = [c \in Callers |-> IdleData]
    /\ lastRequestTime = NeverRequested
    /\ lastDispatch = NoDispatch
    /\ running = [r \in SyncRuns |-> IdleRun]
    /\ sync = IdleSync
    /\ written = NoCall

Init ==
    /\ persisted = EmptyData
    /\ settings = LoadSettings(EmptyData, 0)
    /\ InitDocuments
    /\ InitProcesses
    /\ InitLoaded

\* the steps of the refreshTokenIfNeeded calls
RefreshStep ==
    \/ \E c \in Callers : RefreshTokenIfNeeded(c)
    \/ \E c \in Callers, resp \in RefreshResponses : RefreshAnswer(c, resp)
    \/ \E c \in Callers : RefreshRetry(c)

\* the requests that can reach the listener
CallbackCodes == Codes \cup {Undefined}

CallbackStates == Nonces \cup {"forged", Undefined}

\* the steps of the listener that no caller takes, for requests that carry
\* one of the given codes and states
ListenerStep(codes, states) ==
    \/ \E code \in codes, state \in states : HttpCallback(code, state)
    \/ \E t \in timers : CallbackTimeout(t)

\* the steps of the authenticate() calls A, which make at most limit
\* callback promises in one run
AuthenticateStep(A, limit) ==
    \/ \E a \in A, n \in Nonces, outcome \in StartOutcomes :
          Len(promises) < limit /\ Authenticate(a, n, outcome)
    \/ \E a \in A : AuthCallbackReceived(a)
    \/ \E a \in A, resp \in ExchangeResponses : AuthExchangeAnswer(a, resp)
    \/ \E a \in A : AuthVerify(a)

\* the steps of a direct completeAuthentication call
ManualStep ==
    \/ \E code \in Codes, state \in Nonces \cup {"forged"} :
          CompleteAuthentication(code, state)
    \/ \E resp \in ExchangeResponses : CompleteAnswer(resp)

\* the steps of authenticate(), of its listener and of completeAuthentication
AuthStep ==
    AuthenticateStep(AuthCalls, MaxFlowAttempts)
        \/ ListenerStep(CallbackCodes, CallbackStates) \/ ManualStep

\* calls of the listener's methods from outside authenticate()
DirectStep ==
    \/ \E outcome \in StartOutcomes : DirectStart(outcome)
    \/ DirectClose
    \/ \E w \in Waiters : Len(promises) < MaxFlowAttempts /\ DirectWait(w)

\* the steps of getMeasurements and addMeasurement but their token check
DataStep(C) ==
    \/ \E c \in C, op \in {"get", "add"}, bodyFat \in BOOLEAN :
          DataCall(c, op, bodyFat)
    \/ \E c \in C : RateLimitOver(c)
    \/ \E c \in C, ok \in BOOLEAN : DataAnswer(c, ok)

\* what the plugin and the clock do around them
PluginStep ==
    \/ Disconnect
    \/ Restart
    \/ \E d \in TickSteps : Tick(d)

Next == RefreshStep \/ AuthStep \/ DirectStep \/ DataStep(Callers) \/ PluginStep
            \/ \E c \in Callers : DataDispatch(c)

\* the whole program; its state space is checked through the parts below
Spec == Init /\ [][Next]_vars

\* one authenticate() call at a time and completeAuthentication: no
\* refreshTokenIfNeeded call is made
NextAuth ==
    AuthenticateStep({"u1"}, MaxAttempts)
        \/ ListenerStep(CallbackCodes, CallbackStates) \/ ManualStep
        \/ PluginStep

SpecAuth == Init /\ [][NextAuth]_vars

\* a data.json left by an earlier run: never written, or written by a
\* successful authorization-code exchange at time 0
StoredCredentials ==
    { EmptyData,
      [googleAccessToken |-> "a1", googleRefreshToken |-> "r1",
       googleTokenExpiry |-> Num(3600000), googleAuthState |-> "n1"] }

InitRefresh ==
    /\ persisted \in StoredCredentials
    /\ settings = LoadSettings(persisted, 0)
    /\ InitDocuments
    /\ InitProcesses
    /\ InitLoaded

\* the refreshTokenIfNeeded calls alone, on a stored credential
NextRefresh == RefreshStep \/ PluginStep

SpecRefresh == InitRefresh /\ [][NextRefresh]_vars

\* overlapping authenticate() calls and their listener
NextAuthFlow ==
    AuthenticateStep(AuthCalls, MaxFlowAttempts)
        \/ ListenerStep(Codes, Nonces)
        \/ \E d \in TickSteps : Tick(d)

SpecAuthFlow == Init /\ [][NextAuthFlow]_vars

\* the event loop runs a due timeout and resumes a call whose promise is
\* settled
FairAuthFlow ==
    /\ WF_vars(\E t \in timers : CallbackTimeout(t))
    /\ \A a \in AuthCalls : WF_vars(AuthCallbackReceived(a))

SpecAuthFlowFair == SpecAuthFlow /\ FairAuthFlow

\* the listener's methods called in any order
NextListener ==
    DirectStep \/ ListenerStep(Codes, {"n1", Undefined}) \/ Tick(callbackTimeout)

SpecListener == Init /\ [][NextListener]_vars

\* a continuation is due: it runs before any other event is handled
AnyResuming == \E c \in Callers : Resuming(c)

\* the caller whose getMeasurements and addMeasurement calls are followed
DataCallers == {"c1"}

\* getMeasurements and addMeasurement calls made one after the other on a
\* stored credential, with the refreshTokenIfNeeded call each of them makes
NextData ==
    \/ \E c \in DataCallers : TokenCheckDue(c) /\ RefreshTokenIfNeeded(c)
    \/ \E c \in DataCallers : DataDispatch(c)
    \/ ~AnyResuming /\ DataStep(DataCallers)
    \/ ~AnyResuming /\ \E c \in DataCallers, resp \in RefreshResponses :
                           RefreshAnswer(c, resp)
    \/ ~AnyResuming /\ \E c \in DataCallers : RefreshRetry(c)
    \/ ~AnyResuming /\ PluginStep

SpecData == InitRefresh /\ [][NextData]_vars

\* ------------------------------------------------ the sync schedule alone

\* the plugin is not loaded yet; the settings of the integration are any
\* that a data.json can hold
InitSchedule ==
    /\ persisted \in StoredCredentials
    /\ settings = LoadSettings(persisted, 0)
    /\ prefs \in { [ConfiguredPrefs EXCEPT !.enableGoogleFit = e,
                                           !.googleClientId = c,
                                           !.googleAutoSyncInterval = m] :
                      e \in BOOLEAN, c \in {Empty, "id"}, m \in IntervalValues }
    /\ provider = EmptyProvider
    /\ vault = EmptyVault
    /\ InitProcesses
    /\ plugin = Unloaded
    /\ intervals = <<>>

\* the plugin is loaded and unloaded, its Google Fit settings are changed,
\* and the timers that are armed fire
NextSchedule ==
    \/ Onload
    \/ Onunload
    \/ \E value \in BOOLEAN : ToggleGoogleFit(value)
    \/ \E value \in {Empty, "id"} : ChangeCredential("googleClientId", value)
    \/ \E minutes \in IntervalValues : ChangeInterval(minutes)
    \/ \E i \in 1..MaxIntervals : IntervalFires(i)
    \/ \E outcome \in FetchOutcomes : FetchAnswered(outcome)

SpecSchedule == InitSchedule /\ [][NextSchedule]_vars

\* ------------------------------------------------------- the sync run alone

\* what the provider can answer. The points it can hold: two in the same
\* second, one a minute on. The answers for one category: a dataset of up to
\* two of the points, a dataset with a point that has no value, or a body
\* that is not JSON
Providers ==
    LET WeightPoints ==
            { Point(Nanos(60, 0), <<7000>>),
              Point(Nanos(60, 500000000), <<7150>>),
              Point(Nanos(120, 0), <<7150>>) }
        BodyFatPoints ==
            { Point(Nanos(60, 0), <<2050>>),
              Point(Nanos(60, 500000000), <<2110>>),
              Point(Nanos(120, 0), <<2110>>) }
        Responses(points) ==
            {Malformed, Dataset(<<>>), Dataset(<<Point(Nanos(60, 0), <<>>)>>)}
                \cup { Dataset(<<p>>) : p \in points }
                \cup { Dataset(pq) :
                         pq \in {x \in points \X points : x[1] # x[2]} }
    IN  { [weight |-> w, bodyFat |-> b] :
            w \in Responses(WeightPoints), b \in Responses(BodyFatPoints) }

\* the credential of a connected account
ConnectedData ==
    [googleAccessToken |-> "a1", googleRefreshToken |-> "r1",
     googleTokenExpiry |-> Num(3600000), googleAuthState |-> "n1"]

\* a connected account, any answers of the provider, and the output
\* settings: either writer, or both
InitSync ==
    /\ persisted = ConnectedData
    /\ settings = LoadSettings(persisted, 0)
    /\ prefs \in { [ConfiguredPrefs EXCEPT !.measurementSystem = s,
                                           !.enableMeasurementFiles = f,
                                           !.enableJournalEntry = j] :
                      s \in {"metric", "imperial"}, f \in BOOLEAN,
                      j \in BOOLEAN }
    /\ provider \in Providers
    /\ vault = EmptyVault
    /\ InitProcesses
    /\ InitLoaded

\* sync runs, started by the command or by the timer; the vault can reject
\* any read or write of a record
NextSync ==
    \/ SyncGoogleFit
    \/ \E outcome \in FetchOutcomes : FetchAnswered(outcome)
    \/ \E failure \in {NoFailure}
                          \cup { [in |-> w, at |-> n] :
                                   w \in {"files", "journal"}, n \in 1..2 } :
            WriteRecord(failure)

SpecSync == InitSync /\ [][NextSync]_vars

\* ------------------------------------------------ the document writers alone

\* the records entered by hand
Records ==
    { [date |-> 1, weight |-> w, bodyFat |-> b] :
        w \in {800, 810}, b \in {NoValue, 205} }

\* journal files as the plugin and the user leave them: with and without a
\* final newline, with blank lines at the end, with an entry in each form
JournalDocuments ==
    LET Heading == <<Ch("#"), Sp, Ch("Monday")>>
        PlainEntry == <<Ch("-"), Sp, Ch("["), Ch("b"), Ch("]"), Sp,
                        Ch("Weight"), Ch(":"), Sp, Val(800), Sp, Ch("kg")>>
        CalloutEntry == <<Ch(">"), Sp>> \o PlainEntry
        CheckedEntry == <<Sp, Sp, Ch("-"), Sp, Ch("["), Ch("x"), Ch("]"), Sp,
                          Ch("Weight"), Ch(":"), Sp, Val(810), Sp, Ch("kg"), Sp>>
        ListItem == <<Ch("-"), Sp, Ch("Weight"), Ch(":"), Sp, Val(800), Sp,
                      Ch("kg")>>
    IN  { NoFile,
          File(<<>>),
          File(Heading),
          File(Heading \o <<NL, NL, NL>>),
          File(Heading \o <<NL>> \o PlainEntry \o <<NL>>),
          File(Heading \o <<NL>> \o CalloutEntry \o <<NL>>),
          File(Heading \o <<NL>> \o CheckedEntry),
          File(ListItem \o <<NL>> \o Heading \o <<NL>>) }

\* measurement files: written by the plugin (the row and the chart of an
\* earlier record), and edited by the user: a note before the heading, a
\* note after the chart, the chart removed, an indented first line, a fence
\* that is not closed
MeasurementDocuments ==
    LET EarlierRecord == [date |-> 0, weight |-> 790, bodyFat |-> NoValue]
        WrittenRow ==
            MeasurementEntry(ConfiguredPrefs.measurements[1], EarlierRecord,
                             ConfiguredPrefs)
        WrittenChart ==
            FormatMermaidChart(<<[pointDate |-> <<Date(EarlierRecord.date)>>,
                                  pointValue |-> <<Val(EarlierRecord.weight)>>]>>)
        Note == <<Ch("note")>>
    IN  { NoFile,
          File(DefaultHeader("Weight") \o WrittenRow \o <<NL, NL>>
                   \o WrittenChart),
          File(Note \o <<NL>> \o DefaultHeader("Weight") \o WrittenRow
                   \o <<NL, NL>> \o WrittenChart \o <<NL>> \o Note \o <<NL>>),
          File(DefaultHeader("Weight") \o WrittenRow \o <<NL>>),
          File(<<Sp, Sp>> \o Note \o <<NL>> \o DefaultHeader("Weight")
                   \o WrittenRow \o <<Sp, NL>>),
          File(DefaultHeader("Weight") \o <<Fence, Mermaid, NL>> \o Note
                   \o <<NL>>) }

\* a document of one kind in the vault, and the journal written with or
\* without the callout
InitJournal ==
    /\ persisted = ConnectedData
    /\ settings = LoadSettings(persisted, 0)
    /\ prefs \in { [ConfiguredPrefs EXCEPT !.enableJournalEntryCallout = c] :
                      c \in BOOLEAN }
    /\ provider = EmptyProvider
    /\ vault \in { [EmptyVault EXCEPT !["journal"] = j] : j \in JournalDocuments }
                  \cup { [EmptyVault EXCEPT !["Weight"] = w] :
                           w \in MeasurementDocuments }
    /\ InitProcesses
    /\ InitLoaded

\* appendToJournal and updateMeasurementFiles called for records entered by
\* hand, on documents of any shape
NextJournal ==
    \/ \E data \in Records : CallAppendToJournal(data)
    \/ \E data \in Records : CallUpdateMeasurementFiles(data)
    \/ \E value \in BOOLEAN : ToggleCallout(value)

SpecJournal == InitJournal /\ [][NextJournal]_vars

\* --------------------------------------------------- two runs under way

\* the journal file of the day the provider's points are of
DayJournal == File(<<Ch("#"), Sp, Ch("Monday"), NL>>)

\* a connected account, any answers of the provider, journal entries as
\* plain lines or in a callout, and the day's journal file in the vault
InitOverlap ==
    /\ persisted = ConnectedData
    /\ settings = LoadSettings(persisted, 0)
    /\ prefs \in { [ConfiguredPrefs EXCEPT !.enableMeasurementFiles = FALSE,
                                           !.enableJournalEntryCallout = c] :
                      c \in BOOLEAN }
    /\ provider \in Providers
    /\ vault = [EmptyVault EXCEPT !["journal"] = DayJournal]
    /\ InitProcesses
    /\ InitLoaded

\* the runs of the timer and of the command, each at its own pace
NextOverlap ==
    \E r \in SyncRuns : RunStarts(r) \/ RunReads(r) \/ RunWrites(r)

SpecOverlap == InitOverlap /\ [][NextOverlap]_vars

\* ------------------------------------------------ the sync after a restart

\* a connected account whose plugin is loaded with the sync timer armed; the
\* provider holds nothing or one weight
InitResume ==
    /\ persisted = ConnectedData
    /\ settings = LoadSettings(persisted, 0)
    /\ prefs = ConfiguredPrefs
    /\ provider \in
          { EmptyProvider,
            [weight |-> Dataset(<<Point(Nanos(60, 0), <<7000>>)>>),
             bodyFat |-> Dataset(<<>>)] }
    /\ vault = EmptyVault
    /\ InitProcesses
    /\ InitLoaded

\* time passes, the application is started again, the sync timer fires, and
\* the run the timer started goes on
NextResume ==
    \/ \E d \in TickSteps : Tick(d)
    \/ Restart
    \/ \E i \in 1..MaxIntervals : IntervalFires(i)
    \/ \E outcome \in FetchOutcomes : FetchAnswered(outcome)
    \/ WriteRecord(NoFailure)

SpecResume == InitResume /\ [][NextResume]_vars

\* an armed interval timer fires again and again; the provider and the token
\* endpoint answer, and the vault takes every write
FairResume ==
    /\ WF_vars(\E i \in 1..MaxIntervals : IntervalFires(i))
    /\ WF_vars(FetchAnswered("answered"))
    /\ WF_vars(WriteRecord(NoFailure))

SpecResumeFair == SpecResume /\ FairResume

\* ------------------------------------------------------------------ claims

\* a credential as its content: an unset token reads the same whether it is
\* undefined or the empty string, an unset expiry whether undefined or null
TokenView(s) ==
    [access |-> IF Truthy(s.googleAccessToken) THEN s.googleAccessToken ELSE Empty,
     refresh |-> IF Truthy(s.googleRefreshToken) THEN s.googleRefreshToken ELSE Empty,
     expiry |-> IF s.googleTokenExpiry.tag \in {"number", "NaN"}
                THEN s.googleTokenExpiry ELSE NumUndefined]

\* this step is the start of a refreshTokenIfNeeded call of caller c
Started(c) == call'[c].turn # call[c].turn /\ call'[c].pc # "idle"

\* this step is the end of an attempt of caller c's call
Answered(c) ==
    call[c].pc = "fetch" /\ call'[c].pc \in {"delay", "done"}
        /\ call'[c].turn = call[c].turn

\* this step is the start of a direct completeAuthentication call
ManualStarted == manual'.turn # manual.turn /\ manual'.pc # "idle"

\* C1: at most one refresh sequence (a request awaiting its answer, or the
\* delay before a retry) is in flight at any time.
C1_OneRefreshInFlight ==
    Cardinality({c \in Callers : call[c].pc \in {"fetch", "delay"}}) <= 1

\* C2: a token exchange that fails (the authorization-code grant of a direct
\* completeAuthentication call or of authenticate(), or a refresh answered
\* with a retryable error) leaves the tokens and the expiry as they were,
\* in memory and in data.json.
C2_FailedExchangeKeepsCredential ==
    [][ ( \/ manual.pc = "exchange" /\ manual'.result = "failed"
          \/ \E a \in AuthCalls :
                auth[a].pc = "exchange" /\ auth'[a].why = "exchange"
          \/ \E c \in Callers : Answered(c) /\ call'[c].lastError = "transient" )
        => /\ TokenView(settings') = TokenView(settings)
           /\ TokenView(persisted') = TokenView(persisted) ]_vars

\* C3: after a refresh answered with invalid_grant or invalid_token the
\* access token, the refresh token, the expiry and the pending auth state
\* are all cleared, and data.json holds the cleared credential.
C3_AuthErrorClearsAllFour ==
    [][ \A c \in Callers :
          (Answered(c) /\ call'[c].result = "reconnect")
          => /\ ~Truthy(settings'.googleAccessToken)
             /\ ~Truthy(settings'.googleRefreshToken)
             /\ settings'.googleTokenExpiry.tag = "undefined"
             /\ ~Truthy(settings'.googleAuthState)
             /\ persisted' = Serialize(settings') ]_vars

\* C4: an attempt that fails with a retryable error changes neither the
\* settings nor data.json, and a call whose last attempt failed so ends
\* with the retryable error after its two requests.
C4_TransientFailureKeepsCredential ==
    [][ \A c \in Callers :
          (Answered(c) /\ call'[c].lastError = "transient")
          => /\ settings' = settings
             /\ persisted' = persisted
             /\ call'[c].pc = "done"
                  => call'[c].result = "transient" /\ call'[c].sent = 2 ]_vars

C4_Witness ==
    \E c \in Callers :
        /\ call[c].pc = "done"
        /\ call[c].result = "transient"
        /\ call[c].sent = 2
        /\ Truthy(settings.googleRefreshToken)

\* C5: completeAuthentication with a state other than the stored nonce ends
\* at once, without a request to the token endpoint and without a change to
\* the settings or data.json, both when called directly and when the state
\* comes from the listener inside authenticate().
C5_StateMismatchRejected ==
    [][ /\ (ManualStarted /\ manual'.state # settings.googleAuthState)
           => /\ manual'.pc = "done"
              /\ manual'.result = "stateMismatch"
              /\ UNCHANGED tokenVars
        /\ \A a \in AuthCalls :
             ( /\ auth[a].pc = "waiting"
               /\ auth'[a].pc \notin {"waiting", "idle"}
               /\ Truthy(promises[auth[a].awaiting].code)
               /\ Truthy(promises[auth[a].awaiting].state)
               /\ promises[auth[a].awaiting].state # settings.googleAuthState )
             => /\ auth'[a].pc = "done"
                /\ auth'[a].result = "false"
                /\ UNCHANGED tokenVars ]_vars

C5_Witness ==
    /\ manual.pc = "done"
    /\ manual.result = "stateMismatch"
    /\ Truthy(settings.googleAuthState)
    /\ manual.state # settings.googleAuthState
    /\ auth["u1"].pc = "done"
    /\ auth["u1"].why = "stateMismatch"
    /\ Truthy(settings.googleRefreshToken)

\* C6: a credential that has an access token has an expiry time.
C6_AccessTokenHasExpiry ==
    Truthy(settings.googleAccessToken) => settings.googleTokenExpiry.tag = "number"

\* C7: a call made with neither an access token nor a refresh token throws
\* the not-authenticated error at once, having sent no request and changed
\* neither the settings nor data.json.
C7_NoTokensFailsWithoutRequest ==
    [][ \A c \in Callers :
          ( /\ Started(c)
            /\ ~Truthy(settings.googleAccessToken)
            /\ ~Truthy(settings.googleRefreshToken) )
          => /\ call'[c].pc = "done"
             /\ call'[c].result = "AuthRequired"
             /\ call'[c].sent = 0
             /\ UNCHANGED tokenVars ]_vars

C7_Witness ==
    \E c \in Callers :
        /\ call[c].pc = "done"
        /\ call[c].result = "AuthRequired"
        /\ call[c].sent = 0
        /\ ~Truthy(settings.googleAccessToken)
        /\ ~Truthy(settings.googleRefreshToken)
        /\ Truthy(persisted.googleAccessToken)

\* C8: a call made with a refresh token and neither access token nor expiry
\* sends its first refresh request at once: it does not end before that
\* request, and it sends one.
C8_RefreshTokenOnlyStartsRefresh ==
    [][ \A c \in Callers :
          ( /\ Started(c)
            /\ ~Truthy(settings.googleAccessToken)
            /\ Truthy(settings.googleRefreshToken)
            /\ settings.googleTokenExpiry.tag # "number" )
          => /\ call'[c].pc = "fetch"
             /\ call'[c].sent = 1
             /\ UNCHANGED tokenVars ]_vars

C8_Witness ==
    \E c \in Callers :
        /\ call[c].pc = "fetch"
        /\ call[c].sent = 1
        /\ ~Truthy(settings.googleAccessToken)
        /\ Truthy(settings.googleRefreshToken)
        /\ settings.googleTokenExpiry.tag = "undefined"

\* C9: a call sends at most 2 requests; it sends the second only from the
\* delay that follows a retryable failure, at least 1000 ms after that
\* failure; and an attempt that fails with the auth error ends the call.
C9_AtMostTwoAttempts ==
    /\ [](\A c \in Callers : call[c].sent <= 2)
    /\ [][ \A c \in Callers :
             /\ (call'[c].turn = call[c].turn /\ call'[c].sent > call[c].sent)
                => /\ call[c].pc = "delay"
                   /\ call[c].lastError = "transient"
                   /\ call[c].sent = 1
                   /\ now >= call[c].failedAt + 1000
             /\ (call'[c].pc = "delay" /\ call[c].pc # "delay")
                => call'[c].lastError = "transient" /\ call'[c].failedAt = now
             /\ (Answered(c) /\ call'[c].lastError = "reconnect")
                => call'[c].pc = "done" /\ call'[c].result = "reconnect" ]_vars

C9_Witness ==
    \E c \in Callers :
        /\ call[c].pc = "fetch"
        /\ call[c].sent = 2
        /\ \E d \in Callers : call[d].result = "reconnect"

\* C10 as stated: a call made when a refresh is needed (no access token, no
\* known expiry, or the expiry within 5 minutes) and no refresh token is
\* stored ends with the not-authenticated error and no request, leaving the
\* access token and the expiry cleared in the settings and in data.json.
C10_NoRefreshTokenClearsAndPersists ==
    [][ \A c \in Callers :
          ( /\ Started(c)
            /\ ~Truthy(settings.googleRefreshToken)
            /\ \/ ~Truthy(settings.googleAccessToken)
               \/ settings.googleTokenExpiry.tag # "number"
               \/ now + 300000 >= settings.googleTokenExpiry.ms )
          => /\ call'[c].pc = "done"
             /\ call'[c].result = "AuthRequired"
             /\ call'[c].sent = 0
             /\ ~Truthy(settings'.googleAccessToken)
             /\ settings'.googleTokenExpiry.tag = "undefined"
             /\ TokenView(persisted') = TokenView(settings') ]_vars

\* C10 amended: the same, for a call made while an access token is stored.
C10_AccessTokenOnlyClearsAndPersists ==
    [][ \A c \in Callers :
          ( /\ Started(c)
            /\ ~Truthy(settings.googleRefreshToken)
            /\ Truthy(settings.googleAccessToken)
            /\ \/ settings.googleTokenExpiry.tag # "number"
               \/ now + 300000 >= settings.googleTokenExpiry.ms )
          => /\ call'[c].pc = "done"
             /\ call'[c].result = "AuthRequired"
             /\ call'[c].sent = 0
             /\ ~Truthy(settings'.googleAccessToken)
             /\ settings'.googleTokenExpiry.tag = "undefined"
             /\ TokenView(persisted') = TokenView(settings') ]_vars

C10_Witness ==
    \E c \in Callers :
        /\ call[c].pc = "done"
        /\ call[c].result = "AuthRequired"
        /\ settings.googleAccessToken = Undefined
        /\ ~Truthy(settings.googleRefreshToken)
        /\ persisted.googleAccessToken = Undefined
        /\ persisted.googleTokenExpiry.tag = "undefined"
        /\ persisted.googleAuthState = "n1"

\* this step is the start of an authenticate() call a
AuthStarted(a) ==
    auth[a].pc \in {"idle", "done"} /\ auth'[a] # auth[a] /\ auth'[a].pc # "idle"

\* this step is the end of an authenticate() call a
AuthFinished(a) == auth'[a].pc = "done" /\ auth'[a] # auth[a]

\* C11: an authenticate() call made while another call is waiting for its
\* callback leaves the stored nonce (googleAuthState) as it was.
C11_SecondAuthenticateKeepsNonce ==
    [][ \A a \in AuthCalls :
          (AuthStarted(a) /\ \E b \in AuthCalls \ {a} : auth[b].pc = "waiting")
          => settings'.googleAuthState = settings.googleAuthState ]_vars

\* C12: an authenticate() call that is waiting for its callback when the
\* 5-minute timeout of its attempt is due (or has run) stops waiting.
C12_EveryWaitEnds ==
    \A a \in AuthCalls :
        ( /\ auth[a].pc = "waiting"
          /\ \A t \in timers : t.id = auth[a].awaiting => now >= t.deadline )
        ~> (auth[a].pc # "waiting")

\* C13: the step in which an authenticate() call ends, in whatever way,
\* leaves no server bound to the port and no promise or resolver behind.
C13_FinishedLeavesListenerClosed ==
    [][ \A a \in AuthCalls :
          AuthFinished(a)
          => /\ ~oauthServer'.listening
             /\ oauthServer'.callbackPromise = 0
             /\ oauthServer'.callbackResolver = 0 ]_vars

C13_Witness ==
    /\ auth["u1"].pc = "done"
    /\ auth["u1"].result = "true"
    /\ auth["u2"].pc = "done"
    /\ auth["u2"].why = "noCallback"
    /\ oauthServer = NoServer

\* C14: a request to /callback that lacks the code or the state (answered
\* 400) resolves the pending promise with the empty sentinel.
C14_MissingParameterResolvesSentinel ==
    [][ ( /\ reply' = 400
          /\ reply # 400
          /\ oauthServer.callbackResolver # 0
          /\ promises[oauthServer.callbackResolver].tag = "pending" )
        => promises'[oauthServer.callbackResolver] = Resolved(Empty, Empty) ]_vars

\* C15: what authenticate() reports after a timeout differs from what it
\* reports after a state mismatch.
C15_TimeoutDistinctFromMismatch ==
    \A a, b \in AuthCalls :
        ( /\ auth[a].pc = "done" /\ auth[a].why = "noCallback"
          /\ auth[b].pc = "done" /\ auth[b].why = "stateMismatch" )
        => auth[a].result # auth[b].result

\* C16: a waitForCallback call made while the attempt has a promise returns
\* that promise and arms no timeout, and no promise ever has two timeouts.
C16_WaitersShareOneFuture ==
    /\ [](\A p \in 1..Len(promises) :
            Cardinality({t \in timers : t.id = p}) <= 1)
    /\ [][ \A w \in Waiters :
             ( /\ direct' # direct
               /\ direct'.op = "wait"
               /\ direct'.by = w
               /\ oauthServer.callbackPromise # 0 )
             => /\ waiters'[w] = oauthServer.callbackPromise
                /\ UNCHANGED <<oauthServer, promises, timers>> ]_vars

C16_Witness ==
    /\ waiters["w1"] # 0
    /\ waiters["w2"] = waiters["w1"]
    /\ promises[waiters["w1"]].tag = "resolved"
    /\ Truthy(promises[waiters["w1"]].code)
    /\ Cardinality(timers) = 1

\* C17: start() on a bound listener changes nothing and does not reject;
\* close() in any state does not reject and leaves no server set or bound.
C17_StartIdempotentCloseSafe ==
    [][ direct' # direct
        => /\ (direct'.op = "start" /\ oauthServer.listening)
              => oauthServer' = oauthServer /\ ~direct'.threw
           /\ direct'.op = "close"
              => /\ ~direct'.threw
                 /\ ~oauthServer'.server
                 /\ ~oauthServer'.listening ]_vars

C17_Witness ==
    /\ direct.op = "start"
    /\ direct.was
    /\ ~direct.threw
    /\ oauthServer.listening
    /\ oauthServer.callbackPromise # 0
    /\ promises[oauthServer.callbackPromise].tag = "pending"

\* C18: authenticate() returns true exactly when it ends after the settle
\* delay that follows a stored exchange and reads both tokens back as
\* non-empty; data.json then holds those tokens.
C18_SuccessOnlyAfterPersistedAndReadBack ==
    [][ \A a \in AuthCalls :
          AuthFinished(a)
          => /\ auth'[a].result = "true"
                <=> /\ auth[a].pc = "settle"
                    /\ Truthy(settings.googleAccessToken)
                    /\ Truthy(settings.googleRefreshToken)
             /\ auth'[a].result = "true"
                => /\ persisted.googleAccessToken = settings.googleAccessToken
                   /\ persisted.googleRefreshToken = settings.googleRefreshToken
             /\ auth'[a].result \in {"true", "false", "threw"} ]_vars

C18_Witness ==
    /\ auth["u1"].pc = "done"
    /\ auth["u1"].why = "notSaved"
    /\ auth["u2"].pc = "done"
    /\ auth["u2"].why = "exchange"
    /\ ~Truthy(persisted.googleAccessToken)

\* C19: a data request is sent only after the call's refreshTokenIfNeeded
\* returned, and carries a non-empty access token whose expiry is known and
\* in the future.
C19_RequestsCarryValidToken ==
    [][ \A c \in Callers :
          dataCall'[c].sent > dataCall[c].sent
          => /\ call[c].pc = "done"
             /\ call[c].result = "ok"
             /\ Truthy(dataCall'[c].bearer)
             /\ settings.googleTokenExpiry.tag = "number"
             /\ now < settings.googleTokenExpiry.ms ]_vars

\* C20: the first request of a call is sent at least 1000 ms after the last
\* request of the same caller's previous call.
C20_CallsOneSecondApart ==
    [][ \A c \in Callers :
          ( /\ dataCall[c].sent = 0
            /\ dataCall'[c].sent = 1
            /\ lastDispatch.by = c )
          => now >= lastDispatch.time + 1000 ]_vars

\* C21: every request of the client, whichever call sends it, is sent at
\* least 1000 ms after the request sent before it: the body-fat request of
\* a call after its weight request as well.
C21_AllRequestsOneSecondApart ==
    [][ \A c \in Callers :
          ( /\ dataCall'[c].sent > dataCall[c].sent
            /\ lastDispatch.by # "none" )
          => now >= lastDispatch.time + minRequestInterval ]_vars

\* the values a category's answer reports at a timestamp (startTimeNanos)
Reported(response, startTimeNanos) ==
    { response.point[i].value[1] :
        i \in { j \in 1..Len(response.point) :
                  response.point[j].startTimeNanos = startTimeNanos } }

\* the timestamps a category's answer reports
ReportedAt(response) ==
    { response.point[i].startTimeNanos : i \in 1..Len(response.point) }

\* getMeasurements returned the measurements the run holds
Fetched ==
    /\ sync.fetched = "answered"
    /\ ~Unparsable(provider.weight)
    /\ ~Unparsable(provider.bodyFat)

\* the result holds a sample of that time with that weight and body fat
HasSample(startTimeNanos, weight, bodyFat) ==
    \E i \in 1..Len(sync.measurements) :
        /\ sync.measurements[i].date = Timestamp(startTimeNanos)
        /\ sync.measurements[i].weight = weight
        /\ sync.measurements[i].bodyFat = bodyFat

\* C22: the result of getMeasurements holds, for every timestamp that both
\* categories report, a sample with both values, and for every timestamp
\* that one category alone reports, a sample with that value alone: every
\* reported point is in a sample.
C22_PointsMergedByTimestamp ==
    Fetched =>
        \A t \in ReportedAt(provider.weight) \cup ReportedAt(provider.bodyFat) :
            /\ \A w \in Reported(provider.weight, t) :
                  IF Reported(provider.bodyFat, t) = {}
                  THEN HasSample(t, w, NoValue)
                  ELSE \E b \in Reported(provider.bodyFat, t) : HasSample(t, w, b)
            /\ \A b \in Reported(provider.bodyFat, t) :
                  IF Reported(provider.weight, t) = {}
                  THEN HasSample(t, NoValue, b)
                  ELSE \E w \in Reported(provider.weight, t) : HasSample(t, w, b)

\* the result holds each point of the answer, under its timestamp
Returned(response, field) ==
    \A i \in 1..Len(response.point) :
        \E j \in 1..Len(sync.measurements) :
            /\ sync.measurements[j].date = Timestamp(response.point[i].startTimeNanos)
            /\ sync.measurements[j][field] = response.point[i].value[1]

\* an answer that is empty or cannot be read
Pointless(response) == Unparsable(response) \/ response.point = <<>>

\* C23: when one category's answer is empty or cannot be read, the call
\* still returns, with the samples of the other category.
C23_BadCategoryLeavesOther ==
    sync.fetched = "answered" =>
        /\ ~Unparsable(provider.weight) /\ Pointless(provider.bodyFat)
              => sync.result # "failed" /\ Returned(provider.weight, "weight")
        /\ ~Unparsable(provider.bodyFat) /\ Pointless(provider.weight)
              => sync.result # "failed" /\ Returned(provider.bodyFat, "bodyFat")

\* the entry texts the records make
Texts ==
    { <<Ch("Weight"), Ch(":"), Sp, Val(800), Sp, Ch("kg")>>,
      <<Ch("Weight"), Ch(":"), Sp, Val(810), Sp, Ch("kg")>>,
      <<Ch("Body Fat"), Ch(":"), Sp, Val(205), Sp, Ch("kg")>> }

\* the ways a line carries an entry text: behind a callout marker, behind a
\* task marker with any letter in its brackets, indented, followed by blanks
Forms ==
    { [callout |-> c, marker |-> m, indented |-> i] :
        c \in {<<>>, <<Ch(">")>>, <<Ch(">"), Sp>>},
        m \in {"none", "b", "x"},
        i \in BOOLEAN }

\* the line that carries the text in the form
Decorate(form, text) ==
    form.callout
        \o (IF form.indented THEN <<Sp, Sp>> ELSE <<>>)
        \o (IF form.marker = "none" THEN <<>>
            ELSE <<Ch("-"), Sp, Ch("["), Ch(form.marker), Ch("]"), Sp>>)
        \o text
        \o (IF form.indented THEN <<Sp>> ELSE <<>>)

\* the entry text a line carries: a line that is no entry carries itself
TextOf(line) ==
    IF \E form \in Forms, text \in Texts : Decorate(form, text) = line
    THEN CHOOSE text \in Texts : \E form \in Forms : Decorate(form, text) = line
    ELSE Trim(line)

\* the texts the lines of a content carry
TextsOf(content) ==
    LET lines == Split(content, NL) IN [i \in 1..Len(lines) |-> TextOf(lines[i])]

\* how many lines of a content carry the text
Carrying(content, text) ==
    LET texts == TextsOf(content) IN
    Cardinality({i \in 1..Len(texts) : texts[i] = text})

\* the step is a call of appendToJournal
AppendCalled ==
    written'.calls = written.calls + 1 /\ written'.op = "appendToJournal"

\* C24: a second appendToJournal call with the same record leaves the
\* journal as the first left it, and a call leaves the line of each entry
\* in the journal once: it adds a line only when no line carried the entry.
C24_AppendToJournalIdempotent ==
    [][ AppendCalled =>
          /\ written'.times >= 2 => vault' = vault
          /\ \A i \in 1..Len(Measured(written'.data, prefs)) :
                LET text == EntryContent(Measured(written'.data, prefs)[i],
                                         written'.data, prefs)
                    before == Carrying(vault["journal"].content, text)
                IN  Carrying(vault'["journal"].content, text)
                        = IF before = 0 THEN 1 ELSE before ]_vars

\* appendToJournal was called twice in a row with a record whose weight
\* entry the journal holds
C24_Witness ==
    /\ written.op = "appendToJournal"
    /\ written.times >= 2
    /\ Carrying(vault["journal"].content,
                EntryContent(prefs.measurements[1], written.data, prefs)) = 1

\* C25: hasExistingEntry(content, candidate) is true exactly when a line of
\* the content carries the candidate's entry text, whatever callout and
\* task markers the line and the candidate have.
C25_EquivalentExactlyWhenSameText ==
    LET texts == TextsOf(vault["journal"].content) IN
    \A form \in Forms, text \in Texts :
        HasExistingEntry(vault["journal"].content, Decorate(form, text))
            <=> \E i \in 1..Len(texts) : texts[i] = text

\* the journal holds the plain line of the record's weight and not the
\* callout-wrapped line that appendToJournal was called to add
C25_Witness ==
    /\ written.op = "appendToJournal"
    /\ prefs.enableJournalEntryCallout
    /\ LET lines == Split(vault["journal"].content, NL)
           entry == JournalEntry(prefs.measurements[1], written.data, prefs)
       IN  /\ \E i \in 1..Len(lines) : lines[i] = Tail(Tail(entry))
           /\ \A i \in 1..Len(lines) : lines[i] # entry

\* how many lines of a content are the line
Lines(content, line) ==
    LET lines == Split(content, NL) IN
    Cardinality({i \in 1..Len(lines) : lines[i] = line})

\* every entry derived from the measurements of the run is once in its
\* document, for each writer that is enabled
EachEntryOnce ==
    \A i \in 1..Len(sync.measurements) :
        LET data == RecordOf(sync.measurements[i], prefs)
            ms == Measured(data, prefs)
        IN  \A j \in 1..Len(ms) :
                /\ prefs.enableJournalEntry
                      => Lines(vault["journal"].content,
                               JournalEntry(ms[j], data, prefs)) = 1
                /\ prefs.enableMeasurementFiles
                      => Lines(vault[ms[j].name].content,
                               MeasurementEntry(ms[j], data, prefs)) = 1

\* C26: after two sync runs over the same provider samples, the journal
\* holds the line and the measurement file the row of every derived entry
\* exactly once.
C26_TwoRunsLeaveEachEntryOnce ==
    sync.pc = "done" /\ sync.completed = 2 => EachEntryOnce

\* C27: a sync run in which the vault rejected a read or write of one
\* record's documents still goes through every measurement that was fetched:
\* the loop reaches the end of the list.
C27_WriteFailureLeavesRunGoing ==
    sync.pc = "done" /\ sync.failure # NoFailure
        => sync.next = Len(sync.measurements) + 1

\* C28: when getMeasurements throws, the run ends at once with every
\* document as it was, and the user has been shown one Notice about it.
C28_ProviderFailureSurfacedOnce ==
    [][ sync.pc = "fetch" /\ sync'.pc = "done" /\ sync'.result = "failed"
            => vault' = vault /\ Len(sync'.notices) = 1 ]_vars

\* C29: at every moment at most one sync interval timer is armed, and it is
\* the one the plugin keeps in googleFitSyncInterval (so the next setup or
\* unload cancels it before anything else is armed).
C29_OneSyncTimer ==
    /\ Cardinality(Armed(intervals)) <= 1
    /\ Armed(intervals) \subseteq {plugin.googleFitSyncInterval}

\* an interval change took effect: the timer of the old interval is
\* cancelled and a timer of another interval is armed after it
C29_Witness ==
    \E i \in Armed(intervals) :
        \E j \in 1..(i - 1) :
            /\ ~intervals[j].armed
            /\ intervals[j].minutes # intervals[i].minutes

\* the lines of a document that are not blank, its first fenced chart block
\* left out
KeptLines(content) ==
    SelectSeq(Split(ReplaceChart(content, <<>>), NL),
              LAMBDA line : \E i \in 1..Len(line) : ~IsSpace(line[i]))

\* the lines of a are all in b, in the same order
RECURSIVE IsSubSeq(_, _)
IsSubSeq(a, b) ==
    IF a = <<>> THEN TRUE
    ELSE IF b = <<>> THEN FALSE
    ELSE IF Head(a) = Head(b) THEN IsSubSeq(Tail(a), Tail(b))
    ELSE IsSubSeq(a, Tail(b))

\* C30: a call of appendToJournal or updateMeasurementFiles leaves in every
\* document each non-blank line it held outside the fenced chart block, as
\* it was and in the same order.
C30_DocumentsAppendOnly ==
    [][ \A d \in Documents :
            IsSubSeq(KeptLines(vault[d].content), KeptLines(vault'[d].content))
      ]_vars

\* C31: updateMeasurementFiles called a second time in a row with the same
\* record leaves every measurement file, chart block included, as the first
\* call left it.
C31_ChartMergeIdempotent ==
    [][ written'.op = "updateMeasurementFiles" /\ written'.times >= 2
            => vault' = vault ]_vars

\* how many newlines the text starts with
RECURSIVE LeadingNewlines(_)
LeadingNewlines(text) ==
    IF text # <<>> /\ Head(text) = NL THEN 1 + LeadingNewlines(Tail(text)) ELSE 0

\* the newlines between the last line of the content before and the first
\* line added to it
Separator(before, after) ==
    LeadingNewlines(Drop(after, Len(StripTrailingNewlines(before))))

\* C32: when appendToJournal adds an entry to a journal that has content,
\* in callout mode no empty line stands right before the first line added,
\* and in plain mode exactly one newline stands between the last line the
\* journal had and the first line added.
C32_SeparatorFollowsMode ==
    [][ ( /\ written'.op = "appendToJournal"
          /\ written'.calls # written.calls
          /\ vault["journal"].content # <<>>
          /\ vault'["journal"] # vault["journal"] )
        => LET before == vault["journal"].content
               n == Separator(before, vault'["journal"].content)
           IN  IF prefs.enableJournalEntryCallout
               THEN n <= 1 /\ (StripTrailingNewlines(before) = <<>> => n = 0)
               ELSE n = 1 ]_vars

\* the access token is absent, or its expiry is unknown, or the expiry is
\* no more than 5 minutes after time t
RefreshDue(s, t) ==
    \/ ~Truthy(s.googleAccessToken)
    \/ s.googleTokenExpiry.tag # "number"
    \/ t + 300000 >= s.googleTokenExpiry.ms

\* C33: a refreshTokenIfNeeded call made with a refresh token stored sends
\* a refresh request exactly when the access token is absent, its expiry is
\* unknown, or now + 5 minutes >= expiry; and a call made with an access
\* token whose expiry is beyond that margin returns at once, having sent no
\* request and left the settings and data.json as they were.
C33_RefreshExactlyWhenDue ==
    [][ \A c \in Callers :
          Started(c)
          => /\ Truthy(settings.googleRefreshToken)
                => ( RefreshDue(settings, now)
                       <=> call'[c].pc = "fetch" /\ call'[c].sent = 1 )
             /\ ( (Truthy(settings.googleRefreshToken)
                      \/ Truthy(settings.googleAccessToken))
                  /\ ~RefreshDue(settings, now) )
                => /\ call'[c].pc = "done"
                   /\ call'[c].result = "ok"
                   /\ call'[c].sent = 0
                   /\ UNCHANGED tokenVars ]_vars

\* one call returned at once while the token was fresh, and another one,
\* made exactly 5 minutes before the expiry, has sent its refresh request
C33_Witness ==
    \E c, d \in Callers :
        /\ call[c].pc = "fetch" /\ call[c].sent = 1
        /\ Truthy(settings.googleAccessToken)
        /\ settings.googleTokenExpiry.tag = "number"
        /\ now + 300000 = settings.googleTokenExpiry.ms
        /\ call[d].pc = "done" /\ call[d].result = "ok" /\ call[d].sent = 0

\* this step is a token exchange of completeAuthentication that throws,
\* called directly or by authenticate()
ExchangeThrew ==
    \/ manual.pc = "exchange" /\ manual'.result = "failed"
    \/ \E a \in AuthCalls : auth[a].pc = "exchange" /\ auth'[a].why = "exchange"

\* C34: a token exchange of completeAuthentication that throws leaves the
\* pending auth state as it was, in memory and in data.json, and leaves no
\* access token without an expiry in either.
C34_FailedExchangeKeepsAuthState ==
    [][ ExchangeThrew
        => /\ settings'.googleAuthState = settings.googleAuthState
           /\ persisted'.googleAuthState = settings.googleAuthState
           /\ Truthy(settings'.googleAccessToken)
                 => settings'.googleTokenExpiry.tag = "number"
           /\ Truthy(persisted'.googleAccessToken)
                 => persisted'.googleTokenExpiry.tag = "number" ]_vars

\* authenticate() ended on a failed exchange and its nonce is still the
\* pending auth state
C34_Witness ==
    \E a \in AuthCalls :
        /\ auth[a].pc = "done" /\ auth[a].why = "exchange"
        /\ Truthy(settings.googleAuthState)
        /\ persisted.googleAuthState = settings.googleAuthState
        /\ ~Truthy(settings.googleAccessToken)

\* C35: after updateMeasurementFiles(record) the file of every measurement
\* the record has a value for holds the row rendered for that value,
\* whether or not the file held a chart block before.
C35_FileHoldsRowOfEveryValue ==
    [][ ( /\ written'.op = "updateMeasurementFiles"
          /\ written'.calls # written.calls )
        => LET data == written'.data
               ms == Measured(data, prefs)
           IN  \A j \in 1..Len(ms) :
                   Lines(vault'[ms[j].name].content,
                         MeasurementEntry(ms[j], data, prefs)) >= 1 ]_vars

\* C36: when the timeout armed by waitForCallback for one promise fires
\* after the listener has dropped that promise (its attempt is over and the
\* listener was closed, or a later attempt has its own promise), it changes
\* neither the listener nor any promise.
C36_StaleTimeoutHasNoEffect ==
    [][ \A t \in timers :
          ( /\ timers' = timers \ {t}
            /\ oauthServer.callbackPromise # t.id )
          => oauthServer' = oauthServer /\ promises' = promises ]_vars

\* the journal file after the lines of one run were added one after the
\* other, nothing else writing
RECURSIVE AppendAll(_, _, _)
AppendAll(file, entries, callout) ==
    IF entries = <<>> THEN file
    ELSE AppendAll(AppendEntry(file, Head(entries), callout), Tail(entries),
                   callout)

\* the journal file two runs leave that are executed one after the other
OneAfterTheOther ==
    LET got == GetMeasurements("answered", provider)
        entries == IF got.threw THEN <<>> ELSE EntriesOf(got.measurements, prefs)
        callout == prefs.enableJournalEntryCallout
    IN  AppendAll(AppendAll(DayJournal, entries, callout), entries, callout)

\* C37: when two sync runs that interleave at their reads and writes of the
\* journal file have both ended, the file is the one that the two runs leave
\* when they are executed one after the other
C37_InterleavedRunsEqualSequential ==
    (\A r \in SyncRuns : running[r].pc = "done")
        => vault["journal"] = OneAfterTheOther

\* C38: whenever a sync interval timer is armed, the Google Fit integration
\* is enabled and the configured interval is greater than 0
C38_ArmedTimerMeansEnabled ==
    Armed(intervals) # {}
        => prefs.enableGoogleFit /\ prefs.googleAutoSyncInterval > 0

\* C39: a restart (onunload, then onload's loadSettings) on a data.json that
\* holds a refresh token leaves the in-memory refresh token equal to the
\* persisted one, and the in-memory access token is the persisted one when
\* the persisted expiry is in the future, and empty otherwise
C39_RefreshTokenSurvivesRestart ==
    [][ (Restart /\ Truthy(persisted.googleRefreshToken))
        => /\ settings'.googleRefreshToken = persisted.googleRefreshToken
           /\ settings'.googleAccessToken =
                 IF /\ persisted.googleTokenExpiry.tag = "number"
                    /\ persisted.googleTokenExpiry.ms # 0
                    /\ now < persisted.googleTokenExpiry.ms
                 THEN persisted.googleAccessToken
                 ELSE Empty ]_vars

\* the plugin was restarted after the persisted access token had expired:
\* the refresh token is in memory, the access token is not
C39_Witness ==
    /\ Truthy(persisted.googleRefreshToken)
    /\ Truthy(persisted.googleAccessToken)
    /\ persisted.googleTokenExpiry.tag = "number"
    /\ persisted.googleTokenExpiry.ms > 0
    /\ now >= persisted.googleTokenExpiry.ms
    /\ settings.googleRefreshToken = persisted.googleRefreshToken
    /\ settings.googleAccessToken = Empty
    /\ \A c \in Callers : call[c] = IdleCall

\* the credential holds a refresh token and no access token, the service is
\* there and the sync timer is armed, and no run is under way
RefreshTokenOnly ==
    /\ plugin.googleFitService
    /\ Armed(intervals) # {}
    /\ Truthy(settings.googleRefreshToken)
    /\ ~Truthy(settings.googleAccessToken)
    /\ sync.pc \in {"idle", "done"}
    /\ sync.runs < MaxRuns

\* C40: from a credential that holds a refresh token and no access token (as
\* loadSettings leaves it when the access token had expired), a sync run
\* eventually reaches the provider: it gets to its getMeasurements call
C40_RefreshOnlySyncReachesProvider ==
    RefreshTokenOnly ~> (sync.pc = "fetch")

====
